---- MODULE Spec2Model ----
(***************************************************************************)
(* Reduced Gaussian grid indexing of examples/gaussian_to_regular_grid.py  *)
(* and examples/om_read_example.py, the regular-grid lookup of the latter, *)
(* the converter of the former and the Gaussian entries of the catalog     *)
(* examples/domain_grids.py.                                               *)
(*                                                                         *)
(* GaussianGridType exists twice in the source: the copy in                *)
(* gaussian_to_regular_grid.py (nx_of, integral) and the copy in           *)
(* om_read_example.py (nx_of_om, integral_om).  Python exceptions are      *)
(* modelled as the value of the call: Return(v) for a call that returns v, *)
(* Raise("ValueError") for a call that raises ValueError.                  *)
(***************************************************************************)
EXTENDS Integers, Sequences, FiniteSets, TLC

(***************************************************************************)
(* Bounds of the exploration.                                              *)
(***************************************************************************)
\* rows probed beyond each end of the valid range 0..2L of nx_of/integral
YMargin == 3
\* queries are placed around the grid points of the rows within EdgeRows of
\* the northernmost row, of the equator and of the southernmost row ...
EdgeRows == 1
\* ... and of the columns within EdgeCols of column 0, of the antimeridian
\* column nx/2 and of the last column
EdgeCols == 1
\* the returned point is compared with the points of the rows up to NearRows
\* rows north of the primary row and NearRows rows south of its successor
NearRows == 2
\* of each examined row, the points up to NearCols columns on either side of
\* the rounded column are compared with the returned point
NearCols == 1
\* regular-grid queries are placed within RegularMargin columns (rows) of
\* column (row) 0 and of column nx (row ny), inside and outside the grid
RegularMargin == 2
\* calls made on one converter
MaxCalls == 2
\* calls of the converter that each thread makes
MaxRounds == 2

(***************************************************************************)
(* Natural numbers of any size.  TLC's integers are 32 bits wide and a     *)
(* Python float carries a 53-bit significand, so significands are kept as  *)
(* sequences of 15-bit limbs, least significant first, without leading     *)
(* zero limbs (<<>> is zero).                                              *)
(***************************************************************************)
Base == 2^15

RECURSIVE BigNorm(_)
BigNorm(a) ==
  IF a = <<>> THEN <<>>
  ELSE IF a[Len(a)] = 0 THEN BigNorm(SubSeq(a, 1, Len(a) - 1))
  ELSE a

RECURSIVE BigFromNat(_)
BigFromNat(n) ==
  IF n = 0 THEN <<>> ELSE <<n % Base>> \o BigFromNat(n \div Base)

RECURSIVE BigToNat(_)
BigToNat(a) ==
  IF a = <<>> THEN 0 ELSE a[1] + Base * BigToNat(Tail(a))

RECURSIVE BigCmpAt(_, _, _)
BigCmpAt(a, b, i) ==
  IF i = 0 THEN 0
  ELSE IF a[i] < b[i] THEN -1
  ELSE IF a[i] > b[i] THEN 1
  ELSE BigCmpAt(a, b, i - 1)

\* -1, 0 or 1 as a < b, a = b or a > b
BigCmp(a, b) ==
  IF Len(a) < Len(b) THEN -1
  ELSE IF Len(a) > Len(b) THEN 1
  ELSE BigCmpAt(a, b, Len(a))

RECURSIVE BigAddC(_, _, _)
BigAddC(a, b, c) ==
  IF a = <<>> /\ b = <<>> THEN (IF c = 0 THEN <<>> ELSE <<c>>)
  ELSE LET x == (IF a = <<>> THEN 0 ELSE a[1]) + (IF b = <<>> THEN 0 ELSE b[1]) + c
       IN <<x % Base>> \o BigAddC(IF a = <<>> THEN <<>> ELSE Tail(a),
                                  IF b = <<>> THEN <<>> ELSE Tail(b),
                                  x \div Base)

BigAdd(a, b) == BigAddC(a, b, 0)

RECURSIVE BigSubB(_, _, _)
BigSubB(a, b, c) ==
  IF a = <<>> THEN <<>>
  ELSE LET x == a[1] - (IF b = <<>> THEN 0 ELSE b[1]) - c
       IN <<x % Base>> \o BigSubB(Tail(a),
                                  IF b = <<>> THEN <<>> ELSE Tail(b),
                                  IF x < 0 THEN 1 ELSE 0)

\* a - b for a >= b
BigSub(a, b) == BigNorm(BigSubB(a, b, 0))

RECURSIVE BigMulSmallC(_, _, _)
BigMulSmallC(a, k, c) ==
  IF a = <<>> THEN BigFromNat(c)
  ELSE LET x == a[1] * k + c
       IN <<x % Base>> \o BigMulSmallC(Tail(a), k, x \div Base)

\* a * k for 0 <= k < Base
BigMulSmall(a, k) == BigNorm(BigMulSmallC(a, k, 0))

BigShiftLimbs(a, n) ==
  IF a = <<>> THEN <<>> ELSE [i \in 1..n |-> 0] \o a

RECURSIVE BigMul(_, _)
BigMul(a, b) ==
  IF b = <<>> THEN <<>>
  ELSE BigAdd(BigMulSmall(a, b[1]), BigShiftLimbs(BigMul(a, Tail(b)), 1))

\* a * 2^n
BigShl(a, n) == BigShiftLimbs(BigMulSmall(a, 2^(n % 15)), n \div 15)

\* a \div 2^n
BigShr(a, n) ==
  LET q == n \div 15
      s == n % 15
      t == IF q >= Len(a) THEN <<>> ELSE SubSeq(a, q + 1, Len(a))
  IN IF s = 0 THEN t
     ELSE BigNorm([i \in 1..Len(t) |->
            (t[i] \div 2^s)
              + (IF i < Len(t) THEN (t[i + 1] % 2^s) * 2^(15 - s) ELSE 0)])

RECURSIVE BitLen(_)
BitLen(n) == IF n = 0 THEN 0 ELSE 1 + BitLen(n \div 2)

BigBitLen(a) ==
  IF a = <<>> THEN 0 ELSE 15 * (Len(a) - 1) + BitLen(a[Len(a)])

BigIsOdd(a) == a # <<>> /\ a[1] % 2 = 1

\* the largest digit q <= qh with q * d <= r
RECURSIVE BigDigitFix(_, _, _)
BigDigitFix(r, d, qh) ==
  IF BigCmp(BigMulSmall(d, qh), r) > 0 THEN BigDigitFix(r, d, qh - 1) ELSE qh

\* r \div d for r < d * Base, the top limb of d being at least Base/2
BigDigit(r, d) ==
  IF BigCmp(r, d) < 0 THEN 0
  ELSE LET nd == Len(d)
           rt == IF Len(r) > nd THEN r[nd + 1] * Base + r[nd] ELSE r[nd]
           qh == rt \div d[nd]
       IN BigDigitFix(r, d, IF qh > Base - 1 THEN Base - 1 ELSE qh)

\* long division of the limbs n[1..i] of n, the limbs above i already
\* divided and r the remainder they left
RECURSIVE BigDivStep(_, _, _, _, _)
BigDivStep(n, d, i, q, r) ==
  IF i = 0 THEN [q |-> BigNorm(q), r |-> r]
  ELSE LET r1 == BigNorm(<<n[i]>> \o r)
           dg == BigDigit(r1, d)
       IN BigDivStep(n, d, i - 1, <<dg>> \o q, BigSub(r1, BigMulSmall(d, dg)))

BigDivModUnshift(res, s) == [q |-> res.q, r |-> BigShr(res.r, s)]

\* quotient and remainder of ns by ds, both already shifted left by s bits
BigDivModShifted(ns, ds, s) ==
  BigDivModUnshift(BigDivStep(ns, ds, Len(ns), <<>>, <<>>), s)

\* quotient and remainder of n by d > 0
BigDivMod(n, d) ==
  BigDivModShifted(BigShl(n, 15 - BitLen(d[Len(d)])),
                   BigShl(d, 15 - BitLen(d[Len(d)])),
                   15 - BitLen(d[Len(d)]))

(***************************************************************************)
(* Python floats: IEEE-754 binary64, every operation rounded to nearest,   *)
(* ties to even.  A float is [sg, m, e] with value sg * m * 2^e; a nonzero *)
(* float has a significand m of exactly MantBits bits.  The values of this *)
(* program stay far from overflow and from the subnormal range, which are  *)
(* not modelled; neither are NaN, the infinities and the sign of zero.     *)
(***************************************************************************)
MantBits == 53

FZero == [sg |-> 0, m |-> <<>>, e |-> 0]

\* round to nearest, ties to even: c compares the bits cut off with half a
\* unit in the last place kept
RoundsUp(c, sticky, odd) == c > 0 \/ (c = 0 /\ (sticky \/ odd))

\* rounding up may carry into a 54th bit
FRoundCarry(sg, q2, e) ==
  IF BigBitLen(q2) > MantBits
  THEN [sg |-> sg, m |-> BigShr(q2, 1), e |-> e + 1]
  ELSE [sg |-> sg, m |-> q2, e |-> e]

\* m has sh bits too many; q is m without them
FRoundCut(sg, m, e, sticky, sh, q) ==
  FRoundCarry(sg,
              IF RoundsUp(BigCmp(BigSub(m, BigShl(q, sh)), BigShl(<<1>>, sh - 1)),
                          sticky, BigIsOdd(q))
              THEN BigAdd(q, <<1>>) ELSE q,
              e + sh)

\* m has n bits
FRoundBits(sg, m, e, sticky, n) ==
  IF m = <<>> \/ sg = 0 THEN FZero
  ELSE IF n <= MantBits
    THEN [sg |-> sg, m |-> BigShl(m, MantBits - n), e |-> e - (MantBits - n)]
  ELSE FRoundCut(sg, m, e, sticky, n - MantBits, BigShr(m, n - MantBits))

\* sg * m * 2^e (or, with `sticky`, a value just above it in magnitude)
\* rounded to the nearest float, ties to even
FRound(sg, m, e, sticky) == FRoundBits(sg, m, e, sticky, BigBitLen(m))

\* float(n) for an int n
FromInt(n) ==
  IF n = 0 THEN FZero
  ELSE FRound(IF n < 0 THEN -1 ELSE 1, BigFromNat(IF n < 0 THEN 0 - n ELSE n), 0, FALSE)

FNeg(a) == [a EXCEPT !.sg = 0 - a.sg]

\* the significands of a and b over the common exponent e = min(a.e, b.e)
FAlignAt(a, b, e) ==
  [ma |-> BigShl(a.m, a.e - e), mb |-> BigShl(b.m, b.e - e), e |-> e]

FAlign(a, b) == FAlignAt(a, b, IF a.e < b.e THEN a.e ELSE b.e)

\* the sum of two aligned nonzero floats of signs sa and sb; c compares
\* their magnitudes
FAddAligned(sa, sb, al, c) ==
  IF sa # sb /\ c = 0 THEN FZero
  ELSE FRound(IF sa = sb \/ c > 0 THEN sa ELSE sb,
              IF sa = sb THEN BigAdd(al.ma, al.mb)
              ELSE IF c > 0 THEN BigSub(al.ma, al.mb)
              ELSE BigSub(al.mb, al.ma),
              al.e, FALSE)

FAddNonzero(sa, sb, al) == FAddAligned(sa, sb, al, BigCmp(al.ma, al.mb))

\* a + b
FAdd(a, b) ==
  IF a.sg = 0 THEN b
  ELSE IF b.sg = 0 THEN a
  ELSE FAddNonzero(a.sg, b.sg, FAlign(a, b))

\* a - b
FSub(a, b) == FAdd(a, FNeg(b))

\* a * b
FMul(a, b) ==
  IF a.sg = 0 \/ b.sg = 0 THEN FZero
  ELSE FRound(a.sg * b.sg, BigMul(a.m, b.m), a.e + b.e, FALSE)

\* the quotient dm.q of the significands, rounded; a remainder is sticky
FDivRounded(sg, dm, e) == FRound(sg, dm.q, e, dm.r # <<>>)

\* a / b for b # 0
FDiv(a, b) ==
  IF a.sg = 0 THEN FZero
  ELSE FDivRounded(a.sg * b.sg, BigDivMod(BigShl(a.m, MantBits + 3), b.m),
                   a.e - (MantBits + 3) - b.e)

FCmpAligned(sg, al) == sg * BigCmp(al.ma, al.mb)

\* -1, 0 or 1 as a < b, a = b or a > b
FCmp(a, b) ==
  IF a.sg # b.sg THEN (IF a.sg < b.sg THEN -1 ELSE 1)
  ELSE IF a.sg = 0 THEN 0
  ELSE FCmpAligned(a.sg, FAlign(a, b))

FLess(a, b) == FCmp(a, b) < 0

\* C fmod: the remainder of the aligned significands, with the sign of a
FModAligned(sg, al) == FRound(sg, BigDivMod(al.ma, al.mb).r, al.e, FALSE)

\* Python's `mod += b` when the C remainder r is negative
FModSign(r, b) == IF r.sg < 0 THEN FAdd(r, b) ELSE r

\* a % b for b > 0
FMod(a, b) ==
  IF a.sg = 0 THEN FZero
  ELSE FModSign(FModAligned(a.sg, FAlign(a, b)), b)

\* q is the integer part of m * 2^e for e < 0
FIntPartOf(m, e, q) == [n |-> BigToNat(q), exact |-> BigShl(q, 0 - e) = m]

\* the integer part of |a| and whether a is that integer
FIntPart(a) ==
  IF a.sg = 0 THEN [n |-> 0, exact |-> TRUE]
  ELSE IF a.e >= 0 THEN [n |-> BigToNat(BigShl(a.m, a.e)), exact |-> TRUE]
  ELSE FIntPartOf(a.m, a.e, BigShr(a.m, 0 - a.e))

\* int(a): truncation toward zero
FTrunc(a) == a.sg * FIntPart(a).n

FFloorOf(sg, p) ==
  IF sg >= 0 THEN p.n
  ELSE IF p.exact THEN 0 - p.n ELSE 0 - (p.n + 1)

\* int(floor(a))
FFloor(a) == FFloorOf(a.sg, FIntPart(a))

\* int(ceil(a))
FCeil(a) == 0 - FFloor(FNeg(a))

(***************************************************************************)
(* GaussianGridType                                                        *)
(***************************************************************************)
GaussianGridType == {"o320", "o1280"}

\* a call either returns a value or raises
Return(v) == [raised |-> "none", value |-> v]
Raise(e) == [raised |-> e, value |-> 0]

\* no other member exists, so the final `raise ValueError` is not reachable
latitude_lines(g) ==
  CASE g = "o320" -> 320
    [] g = "o1280" -> 1280

count(g) == LET l == latitude_lines(g) IN 4 * l * (l + 9)

\* a plausible slip: the southern hemisphere mirrored around 2L instead of 2L-1
nx_of_mirror_slip(g, y) ==
  LET l == latitude_lines(g) IN
  IF y < 0 \/ y >= 2 * l THEN Raise("ValueError")
  ELSE IF y < l THEN Return(20 + y * 4)
  ELSE Return((2 * l - y) * 4 + 20)

\* gaussian_to_regular_grid.py
nx_of(g, y) ==
  LET l == latitude_lines(g) IN
  IF y < 0 \/ y >= 2 * l THEN Raise("ValueError")
  ELSE IF y < l THEN Return(20 + y * 4)
  ELSE Return((2 * l - y - 1) * 4 + 20)

\* a plausible slip: the closed form of the prefix sum with 20*y for 18*y
integral_closed_form_slip(g, y) ==
  LET l == latitude_lines(g) IN
  IF y < 0 \/ y > 2 * l THEN Raise("ValueError")
  ELSE IF y <= l THEN Return(2 * y * y + 20 * y)
  ELSE LET remaining == 2 * l - y IN
       Return(count(g) - (2 * remaining * remaining + 18 * remaining))

\* gaussian_to_regular_grid.py
integral(g, y) ==
  LET l == latitude_lines(g) IN
  IF y < 0 \/ y > 2 * l THEN Raise("ValueError")
  ELSE IF y <= l THEN Return(2 * y * y + 18 * y)
  ELSE LET remaining == 2 * l - y IN
       Return(count(g) - (2 * remaining * remaining + 18 * remaining))

\* om_read_example.py: no range check
nx_of_om(g, y) ==
  LET l == latitude_lines(g) IN
  IF y < l THEN Return(20 + y * 4)
  ELSE Return((2 * l - y - 1) * 4 + 20)

\* om_read_example.py: no range check, and y = l takes the mirrored form
integral_om(g, y) ==
  LET l == latitude_lines(g) IN
  IF y < l THEN Return(2 * y * y + 18 * y)
  ELSE LET remaining == 2 * l - y IN
       Return(count(g) - (2 * remaining * remaining + 18 * remaining))

(***************************************************************************)
(* ReducedGaussianGrid                                                     *)
(***************************************************************************)
\* the literal 0.5
Half == FRound(1, <<1>>, -1, FALSE)

\* 180.0 / (2.0 * float(l) + 0.5)
_dy(g) ==
  LET l == latitude_lines(g)
  IN FDiv(FromInt(180), FAdd(FMul(FromInt(2), FromInt(l)), Half))

\* a slip of one character: `/` for `%`
_wrap_longitude_div_slip(lon) ==
  FSub(FDiv(FAdd(lon, FromInt(180)), FromInt(360)), FromInt(180))

\* ((lon + 180.0) % 360.0) - 180.0
_wrap_longitude(lon) ==
  FSub(FMod(FAdd(lon, FromInt(180)), FromInt(360)), FromInt(180))

\* a plausible slip: the quotient is truncated, not rounded
_round_away_from_zero_trunc_slip(x) == FTrunc(x)

\* np.floor(x + 0.5) for x >= 0, np.ceil(x - 0.5) otherwise
_round_away_from_zero(x) ==
  IF FCmp(x, FZero) >= 0 THEN FFloor(FAdd(x, Half)) ELSE FCeil(FSub(x, Half))

Max(a, b) == IF a >= b THEN a ELSE b
Min(a, b) == IF a <= b THEN a ELSE b

\* a plausible slip: the row is clamped to the last row, leaving no successor
ClampRow_last_row_slip(l, y_raw) == Max(0, Min(2 * l - 1, FTrunc(y_raw)))

\* max(0, min(2 * l - 2, int(y_raw)))
ClampRow(l, y_raw) == Max(0, Min(2 * l - 2, FTrunc(y_raw)))

\* float(l - y - 1) * dy + dy / 2.0: the latitude of row y
PointLat(l, dy, y) ==
  FAdd(FMul(FromInt(l - y - 1), dy), FDiv(dy, FromInt(2)))

\* dlat ** 2 + dlon ** 2, each square being the rounded product
SumOfSquares(dlat, dlon) == FAdd(FMul(dlat, dlat), FMul(dlon, dlon))

\* (point_lat - lat) ** 2 + (point_lon - lon_wrapped) ** 2
SquaredDistance(point_lat, point_lon, lat, lon_wrapped) ==
  SumOfSquares(FSub(point_lat, lat), FSub(point_lon, lon_wrapped))

\* a plausible slip: `<=` for `<`, which hands ties to the primary row
PrimaryWins_tie_slip(dist0, dist1) == FCmp(dist0, dist1) <= 0

\* if dist0 < dist1
PrimaryWins(dist0, dist1) == FLess(dist0, dist1)

\* a plausible slip: the column is returned as rounded, not reduced modulo nx
NormalizeColumn_raw_slip(x, nx) == x

\* (x + nx) % nx
NormalizeColumn(x, nx) == (x + nx) % nx

\* y of find_point_xy: the row the latitude falls in, clamped so that a
\* successor row exists
\*   y_raw = float(l) - 1.0 - ((lat - dy / 2.0) / dy)
PrimaryRow(l, dy, lat) ==
  ClampRow(l, FSub(FSub(FromInt(l), FromInt(1)),
                   FDiv(FSub(lat, FDiv(dy, FromInt(2))), dy)))

\* the grid point of row y at column x, the row having nx points dx apart,
\* and its squared distance from the query
Candidate(l, dy, y, nx, dx, x, lat, lon_wrapped) ==
  [x |-> x, nx |-> nx,
   dist |-> SquaredDistance(PointLat(l, dy, y), FMul(FromInt(x), dx),
                            lat, lon_wrapped)]

\* x0 (x1) = _round_away_from_zero(lon_wrapped / dx)
NearestAtSpacing(l, dy, y, nx, dx, lat, lon_wrapped) ==
  Candidate(l, dy, y, nx, dx, _round_away_from_zero(FDiv(lon_wrapped, dx)),
            lat, lon_wrapped)

\* what find_point_xy computes for each of its two rows: the rounded column
\* x0 (x1) of row y, which has nx points, and the squared distance dist0
\* (dist1) from the query to that grid point; dx = 360.0 / float(nx)
NearestInRow(l, dy, y, nx, lat, lon_wrapped) ==
  NearestAtSpacing(l, dy, y, nx, FDiv(FromInt(360), FromInt(nx)),
                   lat, lon_wrapped)

\* the return statements of find_point_xy, with its local variables
FrameOf(y, lon_wrapped, c0, c1) ==
  [out |-> IF PrimaryWins(c0.dist, c1.dist)
           THEN Return(<<NormalizeColumn(c0.x, c0.nx), y>>)
           ELSE Return(<<NormalizeColumn(c1.x, c1.nx), y + 1>>),
   y |-> y, y_upper |-> y + 1, nx |-> c0.nx, nx_upper |-> c1.nx,
   lon_wrapped |-> lon_wrapped, x0 |-> c0.x, x1 |-> c1.x,
   dist0 |-> c0.dist, dist1 |-> c1.dist]

\* find_point_xy from the primary row y and the wrapped longitude on; a
\* nx_of call that raises ends it
FrameAt(g, l, dy, lat, y, lon_wrapped) ==
  IF nx_of(g, y).raised # "none"
    THEN [out |-> nx_of(g, y), y |-> y, y_upper |-> y + 1]
  ELSE IF nx_of(g, y + 1).raised # "none"
    THEN [out |-> nx_of(g, y + 1), y |-> y, y_upper |-> y + 1]
  ELSE FrameOf(y, lon_wrapped,
               NearestInRow(l, dy, y, nx_of(g, y).value, lat, lon_wrapped),
               NearestInRow(l, dy, y + 1, nx_of(g, y + 1).value, lat, lon_wrapped))

\* find_point_xy with l = latitude_lines and dy = _dy()
FrameWith(g, l, dy, lat, lon) ==
  FrameAt(g, l, dy, lat, PrimaryRow(l, dy, lat), _wrap_longitude(lon))

\* the local variables of find_point_xy at its return statement, and the
\* value returned (or the exception a nx_of call raised)
find_point_xy_frame(g, lat, lon) ==
  FrameWith(g, latitude_lines(g), _dy(g), lat, lon)

\* (x, y) of the nearest grid point
find_point_xy(g, lat, lon) == find_point_xy_frame(g, lat, lon).out

\* integral(y) + x for the (x, y) that find_point_xy returned
IndexOf(g, xy) ==
  IF xy.raised # "none" THEN xy
  ELSE IF integral(g, xy.value[2]).raised # "none" THEN integral(g, xy.value[2])
  ELSE Return(integral(g, xy.value[2]).value + xy.value[1])

\* self.grid_type.integral(y) + x
find_point(g, lat, lon) == IndexOf(g, find_point_xy(g, lat, lon))

\* what get_lat_lon_arrays stores at position integral(y) + x of lats
ArrayLat(g, y) == PointLat(latitude_lines(g), _dy(g), y)

\* a plausible slip: the longitudes are stored as generated, in [0, 360)
ArrayLonWrap_unwrapped_slip(lon_line) == lon_line

\* ((lon_line + 180.0) % 360.0) - 180.0, element by element
ArrayLonWrap(lon_line) ==
  FSub(FMod(FAdd(lon_line, FromInt(180)), FromInt(360)), FromInt(180))

\* what get_lat_lon_arrays stores at position integral(y) + x of lons
ArrayLon(g, y, x) ==
  ArrayLonWrap(FMul(FromInt(x), FDiv(FromInt(360), FromInt(nx_of(g, y).value))))

(***************************************************************************)
(* find_point_regular and its caller (om_read_example.py)                  *)
(***************************************************************************)
\* the integer nearest to a float lying between f and f + 1, where c
\* compares its distance from f with one half: a tie goes to the even one
PyRoundOf(f, c) ==
  IF c < 0 THEN f
  ELSE IF c > 0 THEN f + 1
  ELSE IF f % 2 = 0 THEN f ELSE f + 1

PyRoundFrom(a, f) == PyRoundOf(f, FCmp(FSub(a, FromInt(f)), Half))

\* int(round(a)): Python rounds a float to the nearest integer, ties to even
PyRound(a) == PyRoundFrom(a, FFloor(a))

\* a plausible slip: `>` for `>=`
IsGlobal_strict_slip(n, d, span) == FCmp(FMul(FromInt(n), d), FromInt(span)) > 0

\* nx * dx >= 359, ny * dy >= 179
IsGlobal(n, d, span) == FCmp(FMul(FromInt(n), d), FromInt(span)) >= 0

\* a plausible slip: the column nx + 1 is not snapped, as for rows
SnapColumn_single_slip(x, nx, is_global_x) ==
  IF ~ is_global_x THEN x
  ELSE IF x = -1 THEN 0
  ELSE IF x = nx THEN nx - 1
  ELSE x

\* if is_global_x: x == -1 becomes 0, x in (nx, nx + 1) becomes nx - 1
SnapColumn(x, nx, is_global_x) ==
  IF ~ is_global_x THEN x
  ELSE IF x = -1 THEN 0
  ELSE IF x \in {nx, nx + 1} THEN nx - 1
  ELSE x

\* if is_global_y: y == -1 becomes 0, y == ny becomes ny - 1
SnapRow(y, ny, is_global_y) ==
  IF ~ is_global_y THEN y
  ELSE IF y = -1 THEN 0
  ELSE IF y = ny THEN ny - 1
  ELSE y

\* a plausible slip: `>` for `>=` in the upper bounds
OutOfBounds_inclusive_slip(x, y, nx, ny) == y < 0 \/ x < 0 \/ y > ny \/ x > nx

\* if y < 0 or x < 0 or y >= ny or x >= nx
OutOfBounds(x, y, nx, ny) == y < 0 \/ x < 0 \/ y >= ny \/ x >= nx

\* the end of find_point_regular: raise or return, with its local variables
RegularFrameOf(x_raw, y_raw, x, y, nx, ny) ==
  [out |-> IF OutOfBounds(x, y, nx, ny) THEN Raise("ValueError")
           ELSE Return(<<x, y>>),
   x_raw |-> x_raw, y_raw |-> y_raw, x |-> x, y |-> y]

\* find_point_regular from the rounded column and row on
RegularFrameAt(x_raw, y_raw, is_global_x, is_global_y, nx, ny) ==
  RegularFrameOf(x_raw, y_raw, SnapColumn(x_raw, nx, is_global_x),
                 SnapRow(y_raw, ny, is_global_y), nx, ny)

find_point_regular_frame(lat, lon, lat_min, lon_min, dx, dy, nx, ny) ==
  RegularFrameAt(PyRound(FDiv(FSub(lon, lon_min), dx)),
                 PyRound(FDiv(FSub(lat, lat_min), dy)),
                 IsGlobal(nx, dx, 359), IsGlobal(ny, dy, 179), nx, ny)

find_point_regular(lat, lon, lat_min, lon_min, dx, dy, nx, ny) ==
  find_point_regular_frame(lat, lon, lat_min, lon_min, dx, dy, nx, ny).out

\* main, --grid=regular: index = y * nx + x of the point found
RegularIndexOf(xy, nx) ==
  IF xy.raised # "none" THEN xy ELSE Return(xy.value[2] * nx + xy.value[1])

main_regular(lat, lon, lat_min, lon_min, dx, dy, nx, ny) ==
  RegularIndexOf(find_point_regular(lat, lon, lat_min, lon_min, dx, dy, nx, ny), nx)

(***************************************************************************)
(* ReducedGaussianGrid of om_read_example.py, the second copy of the       *)
(* indexer: its nx_of and integral are nx_of_om and integral_om, and its   *)
(* rounding goes through math.floor and math.ceil                          *)
(***************************************************************************)
\* 180.0 / (2.0 * float(l) + 0.5)
_dy_om(g) ==
  FDiv(FromInt(180), FAdd(FMul(FromInt(2), FromInt(latitude_lines(g))), Half))

\* ((lon + 180.0) % 360.0) - 180.0
_wrap_longitude_om(lon) ==
  FSub(FMod(FAdd(lon, FromInt(180)), FromInt(360)), FromInt(180))

\* a plausible slip: Python's round, which rounds ties to even
_round_away_from_zero_om_even_slip(x) == PyRound(x)

\* int(math.floor(x + 0.5)) for x >= 0, int(math.ceil(x - 0.5)) otherwise
_round_away_from_zero_om(x) ==
  IF FCmp(x, FZero) >= 0 THEN FFloor(FAdd(x, Half)) ELSE FCeil(FSub(x, Half))

\* max(0, min(2 * l - 2, int(y_raw)))
ClampRow_om(l, y_raw) == Max(0, Min(2 * l - 2, FTrunc(y_raw)))

\* y for y_raw = float(l) - 1.0 - ((lat - dy / 2.0) / dy)
PrimaryRow_om(l, dy, lat) ==
  ClampRow_om(l, FSub(FSub(FromInt(l), FromInt(1)),
                      FDiv(FSub(lat, FDiv(dy, FromInt(2))), dy)))

\* float(l - y - 1) * dy + dy / 2.0
PointLat_om(l, dy, y) ==
  FAdd(FMul(FromInt(l - y - 1), dy), FDiv(dy, FromInt(2)))

\* (point_lat - lat) ** 2 + (point_lon - lon_wrapped) ** 2
SquaredDistance_om(point_lat, point_lon, lat, lon_wrapped) ==
  SumOfSquares(FSub(point_lat, lat), FSub(point_lon, lon_wrapped))

\* the point of row y at column x, point_lon = float(x) * dx, and its dist
Candidate_om(l, dy, y, nx, dx, x, lat, lon_wrapped) ==
  [x |-> x, nx |-> nx,
   dist |-> SquaredDistance_om(PointLat_om(l, dy, y), FMul(FromInt(x), dx),
                               lat, lon_wrapped)]

\* x0 (x1) = _round_away_from_zero(lon_wrapped / dx)
NearestAtSpacing_om(l, dy, y, nx, dx, lat, lon_wrapped) ==
  Candidate_om(l, dy, y, nx, dx, _round_away_from_zero_om(FDiv(lon_wrapped, dx)),
               lat, lon_wrapped)

\* dx = 360.0 / float(nx)
NearestInRow_om(l, dy, y, nx, lat, lon_wrapped) ==
  NearestAtSpacing_om(l, dy, y, nx, FDiv(FromInt(360), FromInt(nx)), lat, lon_wrapped)

\* if dist0 < dist1: return ((x0 + nx) % nx, y), otherwise
\* return ((x1 + nx_upper) % nx_upper, y_upper)
ReturnOf_om(y, c0, c1) ==
  IF FLess(c0.dist, c1.dist)
  THEN Return(<<(c0.x + c0.nx) % c0.nx, y>>)
  ELSE Return(<<(c1.x + c1.nx) % c1.nx, y + 1>>)

\* find_point_xy from the primary row y and the wrapped longitude on; the
\* two nx_of calls come first and an exception of either would end the call
FindFrom_om(g, l, dy, lat, y, lon_wrapped) ==
  IF nx_of_om(g, y).raised # "none" THEN nx_of_om(g, y)
  ELSE IF nx_of_om(g, y + 1).raised # "none" THEN nx_of_om(g, y + 1)
  ELSE ReturnOf_om(y,
                   NearestInRow_om(l, dy, y, nx_of_om(g, y).value, lat, lon_wrapped),
                   NearestInRow_om(l, dy, y + 1, nx_of_om(g, y + 1).value, lat, lon_wrapped))

FindWith_om(g, l, dy, lat, lon) ==
  FindFrom_om(g, l, dy, lat, PrimaryRow_om(l, dy, lat), _wrap_longitude_om(lon))

\* (x, y) of the nearest grid point
find_point_xy_om(g, lat, lon) == FindWith_om(g, latitude_lines(g), _dy_om(g), lat, lon)

\* integral(y) + x
IndexOf_om(g, xy) ==
  IF xy.raised # "none" THEN xy
  ELSE Return(integral_om(g, xy.value[2]).value + xy.value[1])

\* self.grid_type.integral(y) + x for the (x, y) of find_point_xy
find_point_om(g, lat, lon) == IndexOf_om(g, find_point_xy_om(g, lat, lon))

(***************************************************************************)
(* GaussianToRegularConverter (gaussian_to_regular_grid.py).  An array is   *)
(* modelled by what identifies it: the point cloud of a grid by the grid    *)
(* and by which invocation of get_lat_lon_arrays built it, a target axis    *)
(* by its length, its first and its last sample.  SciPy is outside the      *)
(* program: its import succeeds or not and its interpolation returns or     *)
(* raises as the environment `env` of the call says.                        *)
(***************************************************************************)
\* the value None of an array attribute
NoArray == [of |-> "None", grid |-> "None", build |-> 0]

\* what the n-th invocation of get_lat_lon_arrays returns: two new arrays
LatLonArrays(g, n) ==
  [lats |-> [of |-> "lats", grid |-> g, build |-> n],
   lons |-> [of |-> "lons", grid |-> g, build |-> n]]

\* __init__; `built` counts the invocations of get_lat_lon_arrays and
\* `calls` the calls of to_regular_grid and to_regular_grid_fast
ConverterStart ==
  [_lats_src |-> NoArray, _lons_src |-> NoArray, built |-> 0, calls |-> 0]

\* the assignment of line 179
StoreSourceCoords(c, built, fresh) ==
  [c EXCEPT !._lats_src = fresh.lats, !._lons_src = fresh.lons, !.built = built]

\* a plausible slip: the cache is never consulted
_get_source_coords_uncached_slip(c, g) ==
  StoreSourceCoords(c, c.built + 1, LatLonArrays(g, c.built + 1))

\* the converter after _get_source_coords()
_get_source_coords(c, g) ==
  IF c._lats_src = NoArray \/ c._lons_src = NoArray
  THEN StoreSourceCoords(c, c.built + 1, LatLonArrays(g, c.built + 1))
  ELSE c

\* float(l) * dy - dy / 2.0
GridInfoLatMax(l, dy) == FSub(FMul(FromInt(l), dy), FDiv(dy, FromInt(2)))

get_grid_info(g) ==
  [lat_min |-> FNeg(GridInfoLatMax(latitude_lines(g), _dy(g))),
   lat_max |-> GridInfoLatMax(latitude_lines(g), _dy(g))]

\* np.arange(start, stop, step) has ceil((stop - start) / step) samples, none
\* when that is negative
ArangeLength(start, stop, step) == Max(0, FCeil(FDiv(FSub(stop, start), step)))

\* np.arange stores start and start + step, and fills the rest with
\* start + i * delta for delta = (start + step) - start
ArangeItem(start, step, i) ==
  IF i = 0 THEN start
  ELSE IF i = 1 THEN FAdd(start, step)
  ELSE FAdd(start, FMul(FromInt(i), FSub(FAdd(start, step), start)))

ArangeOf(start, step, n) ==
  [len |-> n, first |-> start, last |-> ArangeItem(start, step, Max(0, n - 1))]

np_arange(start, stop, step) == ArangeOf(start, step, ArangeLength(start, stop, step))

\* a plausible slip: the half step is not added to the upper bound
TargetAxis_exclusive_slip(min, max, d) == np_arange(min, max, d)

\* np.arange(min, max + d / 2.0, d)
TargetAxis(min, max, d) == np_arange(min, FAdd(max, FDiv(d, FromInt(2))), d)

\* a range argument: None or a pair (min, max)
NoRange == [given |-> FALSE, min |-> FZero, max |-> FZero]
Range(min, max) == [given |-> TRUE, min |-> min, max |-> max]

LatMinOf(g, lat_range) ==
  IF lat_range.given THEN lat_range.min ELSE get_grid_info(g).lat_min
LatMaxOf(g, lat_range) ==
  IF lat_range.given THEN lat_range.max ELSE get_grid_info(g).lat_max
LonMinOf(lon_range) == IF lon_range.given THEN lon_range.min ELSE FromInt(-180)
LonMaxOf(lon_range) == IF lon_range.given THEN lon_range.max ELSE FromInt(180)

\* how a call of the converter ends: what it returns or raises, which check
\* raised, the steps past the checks that it reached, and the converter it
\* leaves behind
ConverterRaise(c, e, message, steps) ==
  [out |-> Raise(e), message |-> message, steps |-> steps, converter |-> c]

ConverterReturn(c, v, steps) ==
  [out |-> Return(v), message |-> "", steps |-> steps, converter |-> c]

\* a plausible slip: only a zero resolution is rejected
BadResolution_zero_only_slip(dlat, dlon) == FCmp(dlat, FZero) = 0 \/ FCmp(dlon, FZero) = 0

\* dlat <= 0.0 or dlon <= 0.0
BadResolution(dlat, dlon) == FCmp(dlat, FZero) <= 0 \/ FCmp(dlon, FZero) <= 0

\* a plausible slip: shorter data is accepted
BadLength_short_slip(g, data_len) == data_len > count(g)

\* int(data.shape[0]) != expected_count
BadLength(g, data_len) == data_len # count(g)

\* a plausible slip: the point cloud is fetched before the import is tried
ImportFailure_late_slip(c, g) ==
  ConverterRaise(_get_source_coords(c, g), "SystemExit", "scipy", <<"import">>)

\* the import of scipy.interpolate raises ImportError
ImportFailure(c, g) == ConverterRaise(c, "SystemExit", "scipy", <<"import">>)

\* the call into SciPy, which returns the interpolated values or raises
Interpolate(c, env, v, steps) ==
  IF env = "scipy_raises"
  THEN ConverterRaise(c, "InterpolationError", "scipy", steps)
  ELSE ConverterReturn(c, v, steps)

InterpolatorOf(method) == IF method = "nearest" THEN "NearestNDInterpolator" ELSE "griddata"

\* a two-dimensional array whose values are those of `axis`, repeated along
\* the other dimension: `along` is the dimension the values vary along
Repeated(axis, along, shape) == [shape |-> shape, along |-> along, axis |-> axis]

\* lons_2d of np.meshgrid(lon_1d, lat_1d): one row per latitude, the
\* longitudes along each row
meshgrid_lons(lon_1d, lat_1d) == Repeated(lon_1d, 1, <<lat_1d.len, lon_1d.len>>)

\* lats_2d of np.meshgrid(lon_1d, lat_1d): the latitudes down each column
meshgrid_lats(lon_1d, lat_1d) == Repeated(lat_1d, 0, <<lat_1d.len, lon_1d.len>>)

\* the number of elements of an array of one or two dimensions
Size(shape) == IF Len(shape) = 1 THEN shape[1] ELSE shape[1] * shape[2]

\* a.ravel(): the elements of a in row-major order
ravel(a) == [shape |-> <<Size(a.shape)>>, of |-> a]

\* np.column_stack([first, second]): one row (first[i], second[i]) per element
column_stack(first, second) == <<first, second>>

\* what SciPy returns for the source points, the data and the target points
\* it is given: one value per target point, a function of these arguments
Interpolated(interpolator, method, points_src, data, points_tgt) ==
  [shape |-> points_tgt[1].shape, interpolator |-> interpolator, method |-> method,
   points_src |-> points_src, data |-> data, points_tgt |-> points_tgt]

\* data_interp.reshape(shape)
reshape(a, shape) == [a EXCEPT !.shape = shape]

\* points_src = np.column_stack([lons_src, lats_src])
SourcePoints(c) == column_stack(c._lons_src, c._lats_src)

\* the data array, of which the converter reads the length only
DataOf(a) == [len |-> a.data_len]

\* lines 242-258: the interpolated values on the target grid
RegridValues(c, a, lats_2d, lons_2d) ==
  reshape(Interpolated(InterpolatorOf(a.method), a.method, SourcePoints(c), DataOf(a),
                       column_stack(ravel(lons_2d), ravel(lats_2d))),
          lats_2d.shape)

\* lines 240-259, c being the converter after _get_source_coords()
RegridMesh(c, a, lat_1d, lon_1d, lats_2d, lons_2d) ==
  Interpolate(c, a.env,
              [lats_2d |-> lats_2d, lons_2d |-> lons_2d,
               lat_1d |-> lat_1d, lon_1d |-> lon_1d, shape |-> lats_2d.shape,
               data_2d |-> RegridValues(c, a, lats_2d, lons_2d)],
              <<"import", "_get_source_coords", "arange", InterpolatorOf(a.method)>>)

\* lines 238-259
RegridAxes(c, a, lat_1d, lon_1d) ==
  RegridMesh(c, a, lat_1d, lon_1d,
             meshgrid_lats(lon_1d, lat_1d), meshgrid_lons(lon_1d, lat_1d))

Regrid(c, g, a) ==
  RegridAxes(c, a,
             TargetAxis(LatMinOf(g, a.lat_range), LatMaxOf(g, a.lat_range), a.dlat),
             TargetAxis(LonMinOf(a.lon_range), LonMaxOf(a.lon_range), a.dlon))

\* to_regular_grid(data, (dlat, dlon), lat_range, lon_range, method) on the
\* converter c of grid type g
to_regular_grid(c, g, a) ==
  IF BadResolution(a.dlat, a.dlon)
  THEN ConverterRaise(c, "ValueError", "target_resolution", <<>>)
  ELSE IF BadLength(g, a.data_len)
  THEN ConverterRaise(c, "ValueError", "data_length", <<>>)
  ELSE IF a.env = "no_scipy" THEN ImportFailure(c, g)
  ELSE Regrid(_get_source_coords(c, g), g, a)

\* a plausible slip: the target points are stacked as (lat, lon)
FastTargetPoints_lat_first_slip(target_lats, target_lons) ==
  column_stack(ravel(target_lats), ravel(target_lons))

\* points_tgt = np.column_stack([target_lons.ravel(), target_lats.ravel()])
FastTargetPoints(target_lats, target_lons) ==
  column_stack(ravel(target_lons), ravel(target_lats))

\* lines 285-291, c being the converter after _get_source_coords()
FastValues(c, a) ==
  reshape(Interpolated("NearestNDInterpolator", "nearest", SourcePoints(c), DataOf(a),
                       FastTargetPoints(a.target_lats, a.target_lons)),
          a.target_lats.shape)

\* to_regular_grid_fast(data, target_lats, target_lons)
to_regular_grid_fast(c, g, a) ==
  IF a.target_lats.shape # a.target_lons.shape
  THEN ConverterRaise(c, "ValueError", "target_shape", <<>>)
  ELSE IF BadLength(g, a.data_len)
  THEN ConverterRaise(c, "ValueError", "data_length", <<>>)
  ELSE IF a.env = "no_scipy" THEN ImportFailure(c, g)
  ELSE Interpolate(_get_source_coords(c, g), a.env,
                   FastValues(_get_source_coords(c, g), a),
                   <<"import", "_get_source_coords", "NearestNDInterpolator">>)

(***************************************************************************)
(* The grid catalog (domain_grids.py)                                      *)
(***************************************************************************)
\* the names a GaussianGrid entry may carry
GaussianGridTypeName == {"o1280", "o320", "n160", "n320"}

\* the GaussianGrid entries of DOMAIN_GRIDS
GaussianDomainGrids ==
  { [domain |-> "CdsDomain", model |-> "ecmwf_ifs", grid_type |-> "o1280"],
    [domain |-> "CdsDomain", model |-> "ecmwf_ifs_analysis", grid_type |-> "o1280"],
    [domain |-> "CdsDomain", model |-> "ecmwf_ifs_analysis_long_window",
     grid_type |-> "o1280"],
    [domain |-> "CdsDomain", model |-> "ecmwf_ifs_long_window", grid_type |-> "o1280"],
    [domain |-> "EcmwfEcpdsDomain", model |-> "ifs", grid_type |-> "o1280"],
    [domain |-> "EcmwfEcpdsDomain", model |-> "wam", grid_type |-> "o1280"],
    [domain |-> "EcmwfSeasDomain", model |-> "seas5", grid_type |-> "o320"],
    [domain |-> "EcmwfSeasDomain", model |-> "seas5_daily", grid_type |-> "o320"],
    [domain |-> "EcmwfSeasDomain", model |-> "seas5_monthly", grid_type |-> "o320"],
    [domain |-> "EcmwfSeasDomain", model |-> "ec46", grid_type |-> "o320"],
    [domain |-> "EcmwfSeasDomain", model |-> "ec46_weekly", grid_type |-> "o320"],
    [domain |-> "EcmwfSeasDomain", model |-> "seas5_12hourly", grid_type |-> "n160"],
    [domain |-> "EcmwfSeasDomain", model |-> "seas5_monthly_upper_level",
     grid_type |-> "n160"] }

\* GaussianGridType(value): the member of that value, ValueError when the
\* enumeration has none
GaussianGridTypeOf(value) ==
  IF value \in GaussianGridType THEN Return(value) ELSE Raise("ValueError")

(***************************************************************************)
(* main of om_read_example.py                                              *)
(***************************************************************************)
\* how main ends: what it returns or raises, which check raised, the lookup
\* it made and the calls it reached, in order
MainEnd(out, message, lookup, steps) ==
  [out |-> out, message |-> message, lookup |-> lookup, steps |-> steps]

\* no lookup was made
NoLookup == [raised |-> "not called", value |-> 0]

\* lines 249-256: data = read_all(reader), value = data[index], return 0; an
\* exception of the lookup ends main before
main_read(a, lookup, steps) ==
  IF lookup.raised # "none" THEN MainEnd(lookup, "lookup", lookup, steps)
  ELSE IF ~a.has_read
  THEN MainEnd(Raise("ValueError"), "read", lookup, Append(steps, "read_all"))
  ELSE MainEnd(Return(0), "", lookup, steps \o <<"read_all", "read", "subscript">>)

\* lines 209-228
main_regular_mode(a, ny, nx) ==
  IF ~a.regular_given
  THEN MainEnd(Raise("ValueError"), "regular_args", NoLookup, <<"get_dimensions">>)
  ELSE main_read(a, main_regular(a.lat, a.lon, a.lat_min, a.lon_min, a.dx, a.dy, nx, ny),
                 <<"get_dimensions", "find_point_regular">>)

\* nx != grid_type.count
CountMismatch(nx, g) == nx # count(g)

\* lines 231-247
main_gaussian_mode(a, ny, nx) ==
  IF ny # 1
  THEN MainEnd(Raise("ValueError"), "ny", NoLookup, <<"get_dimensions">>)
  ELSE IF GaussianGridTypeOf(a.gaussian_type).raised # "none"
  THEN MainEnd(GaussianGridTypeOf(a.gaussian_type), "gaussian_type", NoLookup,
               <<"get_dimensions">>)
  ELSE IF CountMismatch(nx, a.gaussian_type)
  THEN MainEnd(Raise("ValueError"), "count", NoLookup, <<"get_dimensions">>)
  ELSE main_read(a, find_point_om(a.gaussian_type, a.lat, a.lon),
                 <<"get_dimensions", "find_point">>)

\* lines 205-247: ny, nx = dims[0], dims[1], then the branch of args.grid
main_with_dims(a, ny, nx) ==
  IF a.grid_mode = "regular" THEN main_regular_mode(a, ny, nx)
  ELSE main_gaussian_mode(a, ny, nx)

\* main() for the parsed arguments and the reader that `a` describes
main(a) ==
  IF ~a.dims_known
  THEN MainEnd(Raise("ValueError"), "dimensions", NoLookup, <<"get_dimensions">>)
  ELSE IF Len(a.dims) < 2
  THEN MainEnd(Raise("ValueError"), "at_least_2", NoLookup, <<"get_dimensions">>)
  ELSE main_with_dims(a, a.dims[1], a.dims[2])

(***************************************************************************)
(* State                                                                   *)
(***************************************************************************)
VARIABLES
  grid_type,   \* the GaussianGridType member in use
  input,       \* the arguments the caller is about to pass
  call,        \* the completed call and what it returned or raised
  arrays,      \* progress of the row loop of get_lat_lon_arrays
  converter,   \* the GaussianToRegularConverter and its cached point cloud
  threads      \* the frame of each thread inside a call of the shared converter

vars == <<grid_type, input, call, arrays, converter, threads>>

\* the two threads that share one converter
Threads == {"t1", "t2"}

\* an attribute the frame has not read yet
Unread == [of |-> "unread", grid |-> "None", build |-> 0]

\* the frame of a thread that is in no call: what its `is None` tests read,
\* the arrays it built, the pair it loads for the return statement and the
\* number of its stores into the cache
IdleFrame ==
  [pc |-> "idle", fn |-> "none", round |-> 0, seen_lats |-> Unread,
   seen_lons |-> Unread, fresh |-> [lats |-> NoArray, lons |-> NoArray],
   lats |-> Unread, lons |-> Unread, writes |-> 0]

NoThreads == [t \in Threads |-> IdleFrame]

Modules == {"gaussian_to_regular_grid", "om_read_example"}

NoInput == [module |-> "none"]

NoCall == [fn |-> "none", out |-> Return(0)]

\* the state of get_lat_lon_arrays before its loop: nothing is written yet
ArraysStart ==
  [y |-> 0, start |-> 0, end |-> 0, filled |-> 0, written |-> 0,
   lat |-> FZero, lons |-> <<>>, pc |-> "loop"]

Rows(g) == 0 .. (2 * latitude_lines(g) - 1)

\* the rows and the columns of a row that queries and stored coordinates are
\* sampled at
SampleRows(g) ==
  LET l == latitude_lines(g)
  IN {y \in Rows(g) : \/ y <= EdgeRows
                      \/ (y >= l - 1 - EdgeRows /\ y <= l + EdgeRows)
                      \/ y >= 2 * l - 1 - EdgeRows}

SampleCols(nx) ==
  {x \in 0 .. (nx - 1) : \/ x <= EdgeCols
                         \/ (x >= nx \div 2 - EdgeCols /\ x <= nx \div 2 + EdgeCols)
                         \/ x >= nx - 1 - EdgeCols}

ProbedY(g) == (0 - YMargin) .. (2 * latitude_lines(g) + YMargin)

\* a caller holding a grid type and a row number y, valid or not
Init ==
  /\ grid_type \in GaussianGridType
  /\ input \in [module : Modules, y : ProbedY(grid_type)]
  /\ call = NoCall
  /\ arrays = ArraysStart
  /\ converter = ConverterStart
  /\ threads = NoThreads

\* the caller evaluates grid_type.nx_of(y)
CallNxOf ==
  /\ call = NoCall
  /\ call' = [fn |-> "nx_of",
              out |-> IF input.module = "gaussian_to_regular_grid"
                      THEN nx_of(grid_type, input.y)
                      ELSE nx_of_om(grid_type, input.y)]
  /\ UNCHANGED <<grid_type, input, arrays, converter, threads>>

\* the caller evaluates grid_type.integral(y)
CallIntegral ==
  /\ call = NoCall
  /\ call' = [fn |-> "integral",
              out |-> IF input.module = "gaussian_to_regular_grid"
                      THEN integral(grid_type, input.y)
                      ELSE integral_om(grid_type, input.y)]
  /\ UNCHANGED <<grid_type, input, arrays, converter, threads>>

Next ==
  \/ CallNxOf
  \/ CallIntegral

Spec == Init /\ [][Next]_vars

(***************************************************************************)
(* get_lat_lon_arrays, row by row                                          *)
(***************************************************************************)
InitArrays ==
  /\ grid_type \in GaussianGridType
  /\ input = NoInput
  /\ call = NoCall
  /\ arrays = ArraysStart
  /\ converter = ConverterStart
  /\ threads = NoThreads

\* one iteration of `for y in range(2 * l)`: the slice [start, end) of both
\* arrays is written.  `written` counts the stores and `filled` is where the
\* slice of the row before ended; of the longitudes stored in lons[start:end]
\* those of the columns SampleCols(nx) are kept, and the latitude stored in
\* all of lats[start:end]
GetLatLonArraysRow ==
  /\ arrays.pc = "loop"
  /\ arrays.y < 2 * latitude_lines(grid_type)
  /\ LET y == arrays.y
         start == integral(grid_type, y).value
         nx == nx_of(grid_type, y).value
         end == start + nx
     IN arrays' = [y |-> y + 1, start |-> start, end |-> end,
                   filled |-> arrays.end,
                   written |-> arrays.written + (end - start),
                   lat |-> ArrayLat(grid_type, y),
                   lons |-> [x \in SampleCols(nx) |-> ArrayLon(grid_type, y, x)],
                   pc |-> "loop"]
  /\ UNCHANGED <<grid_type, input, call, converter, threads>>

\* the loop is exhausted: return lats, lons
GetLatLonArraysReturn ==
  /\ arrays.pc = "loop"
  /\ arrays.y = 2 * latitude_lines(grid_type)
  /\ arrays' = [arrays EXCEPT !.pc = "returned"]
  /\ UNCHANGED <<grid_type, input, call, converter, threads>>

NextArrays ==
  \/ GetLatLonArraysRow
  \/ GetLatLonArraysReturn

SpecArrays == InitArrays /\ [][NextArrays]_vars

(***************************************************************************)
(* Nearest-point queries                                                   *)
(***************************************************************************)
\* displacements from a grid point, in quarters of the row spacing dy and of
\* the column spacing dx: 0 is the grid point itself, +-2 the midpoint to
\* the neighbouring row or column
Quarters == -2 .. 2

\* the query j quarter rows north and k quarter columns east of the
\* coordinates get_lat_lon_arrays stores for column x of row y
GridQuery(g, y, x, j, k) ==
  LET dx == FDiv(FromInt(360), FromInt(nx_of(g, y).value))
  IN [kind |-> "grid", row |-> y, col |-> x, j |-> j, k |-> k,
      lat |-> FAdd(ArrayLat(g, y), FMul(FromInt(j), FDiv(_dy(g), FromInt(4)))),
      lon |-> FAdd(ArrayLon(g, y, x), FMul(FromInt(k), FDiv(dx, FromInt(4))))]

\* whole-degree queries: the equator, the poles and beyond, longitudes up
\* to one and a half turns away
FarLats == {-100, -90, 0, 90, 100}
FarLons == {-540, -360, -180, 0, 9, 180, 360, 540}

FarQuery(latdeg, londeg) ==
  [kind |-> "far", row |-> latdeg, col |-> londeg, j |-> 0, k |-> 0,
   lat |-> FromInt(latdeg), lon |-> FromInt(londeg)]

\* every sampled grid point itself; the displaced queries around column 0
\* and around the antimeridian column of every sampled row; the far queries
Queries(g) ==
  UNION {{GridQuery(g, y, x, 0, 0) : x \in SampleCols(nx_of(g, y).value)}
           \cup {GridQuery(g, y, x, j, k) :
                   x \in {0, nx_of(g, y).value \div 2}, j \in Quarters, k \in Quarters} :
         y \in SampleRows(g)}
  \cup {FarQuery(a, b) : a \in FarLats, b \in FarLons}

\* a caller holding a grid and a (lat, lon) to look up
InitFind ==
  /\ grid_type \in GaussianGridType
  /\ input \in Queries(grid_type)
  /\ call = NoCall
  /\ arrays = ArraysStart
  /\ converter = ConverterStart
  /\ threads = NoThreads

\* the caller evaluates grid.find_point_xy(lat, lon); the locals of the
\* call are kept with its result
CallFindPointXY ==
  /\ call = NoCall
  /\ LET frame == find_point_xy_frame(grid_type, input.lat, input.lon)
     IN call' = [fn |-> "find_point_xy", out |-> frame.out, frame |-> frame]
  /\ UNCHANGED <<grid_type, input, arrays, converter, threads>>

\* the caller evaluates grid.find_point(lat, lon)
CallFindPoint ==
  /\ call = NoCall
  /\ call' = [fn |-> "find_point",
              out |-> find_point(grid_type, input.lat, input.lon)]
  /\ UNCHANGED <<grid_type, input, arrays, converter, threads>>

NextFind ==
  \/ CallFindPointXY
  \/ CallFindPoint

SpecFind == InitFind /\ [][NextFind]_vars

(***************************************************************************)
(* Regular-grid queries                                                    *)
(***************************************************************************)
\* regular grids, their steps given in quarters of a degree: the global
\* quarter-degree grid, a grid spanning exactly 359 by 179 degrees, one
\* spanning 358 by 178 degrees, and a small regional grid
RegularGrids ==
  { [name |-> "global", nx |-> 1440, ny |-> 721, lat_min |-> -90,
     lon_min |-> -180, dx_quarters |-> 1, dy_quarters |-> 1],
    [name |-> "span_359", nx |-> 359, ny |-> 179, lat_min |-> -89,
     lon_min |-> -179, dx_quarters |-> 4, dy_quarters |-> 4],
    [name |-> "span_358", nx |-> 358, ny |-> 178, lat_min |-> -89,
     lon_min |-> -179, dx_quarters |-> 4, dy_quarters |-> 4],
    [name |-> "regional", nx |-> 4, ny |-> 3, lat_min |-> 10,
     lon_min |-> 20, dx_quarters |-> 2, dy_quarters |-> 2] }

\* positions along an axis of n points, in half steps from its minimum
HalfSteps(n) ==
  {2 * c + o : c \in ((0 - RegularMargin) .. RegularMargin)
                       \cup ((n - RegularMargin) .. (n + RegularMargin)),
               o \in {-1, 0, 1}}

Quarter(q) == FDiv(FromInt(q), FromInt(4))

\* min + half_steps * (step / 2)
AxisValue(min, step_quarters, half_steps) ==
  FAdd(FromInt(min), FMul(FromInt(half_steps), FDiv(Quarter(step_quarters), FromInt(2))))

\* the query col_halves half columns east and row_halves half rows north
\* of (lat_min, lon_min) of the grid r
RegularQuery(r, col_halves, row_halves) ==
  [kind |-> "regular", grid |-> r.name, nx |-> r.nx, ny |-> r.ny,
   col_halves |-> col_halves, row_halves |-> row_halves,
   span_x_quarters |-> r.nx * r.dx_quarters,
   span_y_quarters |-> r.ny * r.dy_quarters,
   lat_min |-> FromInt(r.lat_min), lon_min |-> FromInt(r.lon_min),
   dx |-> Quarter(r.dx_quarters), dy |-> Quarter(r.dy_quarters),
   lat |-> AxisValue(r.lat_min, r.dy_quarters, row_halves),
   lon |-> AxisValue(r.lon_min, r.dx_quarters, col_halves)]

RegularQueries(r) ==
  {RegularQuery(r, c, w) : c \in HalfSteps(r.nx), w \in HalfSteps(r.ny)}

\* a caller holding a regular grid and a (lat, lon) to look up
InitRegular ==
  /\ grid_type = "o320"
  /\ input \in UNION {RegularQueries(r) : r \in RegularGrids}
  /\ call = NoCall
  /\ arrays = ArraysStart
  /\ converter = ConverterStart
  /\ threads = NoThreads

\* the caller evaluates find_point_regular(...); the locals of the call are
\* kept with its result
CallFindPointRegular ==
  /\ call = NoCall
  /\ LET frame == find_point_regular_frame(input.lat, input.lon, input.lat_min,
                                           input.lon_min, input.dx, input.dy,
                                           input.nx, input.ny)
     IN call' = [fn |-> "find_point_regular", out |-> frame.out, frame |-> frame]
  /\ UNCHANGED <<grid_type, input, arrays, converter, threads>>

\* main with --grid=regular: find_point_regular, then index = y * nx + x
MainRegular ==
  /\ call = NoCall
  /\ call' = [fn |-> "main",
              out |-> main_regular(input.lat, input.lon, input.lat_min,
                                   input.lon_min, input.dx, input.dy,
                                   input.nx, input.ny)]
  /\ UNCHANGED <<grid_type, input, arrays, converter, threads>>

NextRegular ==
  \/ CallFindPointRegular
  \/ MainRegular

SpecRegular == InitRegular /\ [][NextRegular]_vars

(***************************************************************************)
(* Calls of one converter                                                  *)
(***************************************************************************)
Positive(x) == FCmp(x, FZero) > 0

\* 2^k
TwoTo(k) == FRound(1, <<1>>, k, FALSE)

Tenth == FDiv(FromInt(1), FromInt(10))

\* the float after 1.0
OnePlusUlp == FAdd(FromInt(1), TwoTo(-52))

\* target resolutions (dlat, dlon): every pairing of -1.0, 0.0 and 0.25,
\* and two more with both positive
Resolutions ==
  {<<dlat, dlon>> : dlat \in {FromInt(-1), FZero, Quarter(1)},
                    dlon \in {FromInt(-1), FZero, Quarter(1)}}
    \cup {<<OnePlusUlp, Quarter(1)>>, <<Tenth, Tenth>>}

\* (lat_range, lon_range): both None; (-90, 90) and (0, 10); latitudes from
\* the float before -64.0 to 0.0
RangeChoices ==
  { [lat |-> NoRange, lon |-> NoRange],
    [lat |-> Range(FromInt(-90), FromInt(90)), lon |-> Range(FZero, FromInt(10))],
    [lat |-> Range(FNeg(FAdd(FromInt(64), TwoTo(-46))), FZero), lon |-> NoRange] }

\* data one short, right and one long
DataLengths(g) == {count(g) - 1, count(g), count(g) + 1}

Envs == {"no_scipy", "scipy_raises", "scipy_returns"}

\* ranges given by the caller
GivenRanges == {c \in RangeChoices : c.lat.given}

\* the arguments of to_regular_grid: every resolution with every data length
\* over the default ranges, and nearest-neighbour calls over the given ranges
\* at the positive resolutions with data of the right length
RegridArgs(g) ==
  {[dlat |-> r[1], dlon |-> r[2], data_len |-> n, lat_range |-> NoRange,
    lon_range |-> NoRange, method |-> "linear", env |-> e] :
     r \in Resolutions, n \in DataLengths(g), e \in Envs}
  \cup
  {[dlat |-> r[1], dlon |-> r[2], data_len |-> count(g), lat_range |-> c.lat,
    lon_range |-> c.lon, method |-> "nearest", env |-> e] :
     r \in {p \in Resolutions : Positive(p[1]) /\ Positive(p[2])}, c \in GivenRanges,
     e \in Envs \ {"no_scipy"}}

TargetShapes == {<<2, 3>>, <<6>>}

\* target arrays a caller builds itself: the integers from 0 on, repeated
\* down the columns of an array of each shape
TargetArrays ==
  {Repeated(np_arange(FZero, FromInt(s[1]), FromInt(1)), 0, s) : s \in TargetShapes}

FastArgs(g) ==
  [data_len : DataLengths(g), target_lats : TargetArrays,
   target_lons : TargetArrays, env : Envs]

\* a new converter of either grid type
InitConvert ==
  /\ grid_type \in GaussianGridType
  /\ input = NoInput
  /\ call = NoCall
  /\ arrays = ArraysStart
  /\ converter = ConverterStart
  /\ threads = NoThreads

\* the call fn(a) ended as `end` says; the converter it started from is kept
\* with its result
ConverterCall(fn, a, end) ==
  /\ call' = [fn |-> fn, args |-> a, out |-> end.out, message |-> end.message,
              steps |-> end.steps, before |-> converter]
  /\ converter' = [end.converter EXCEPT !.calls = converter.calls + 1]
  /\ UNCHANGED <<grid_type, input, arrays, threads>>

\* the fast call on what the general call returned ended as `end` says; the
\* general call is kept with it
ReusingEnd(a, end) ==
  /\ call' = [fn |-> "to_regular_grid_fast", args |-> a, out |-> end.out,
              message |-> end.message, steps |-> end.steps, before |-> converter,
              general |-> call]
  /\ converter' = [end.converter EXCEPT !.calls = converter.calls + 1]
  /\ UNCHANGED <<grid_type, input, arrays, threads>>

ReusingCall(a) == ReusingEnd(a, to_regular_grid_fast(converter, grid_type, a))

ToRegularGrid ==
  /\ converter.calls < MaxCalls
  /\ \E a \in RegridArgs(grid_type) :
       ConverterCall("to_regular_grid", a, to_regular_grid(converter, grid_type, a))

ToRegularGridFast ==
  /\ converter.calls < MaxCalls
  /\ \E a \in FastArgs(grid_type) :
       ConverterCall("to_regular_grid_fast", a,
                     to_regular_grid_fast(converter, grid_type, a))

\* to_regular_grid_fast(data, lats_2d, lons_2d) with the data and the meshgrid
\* arrays of the to_regular_grid call that has just returned
ToRegularGridFastOnReturned ==
  /\ converter.calls < MaxCalls
  /\ call.fn = "to_regular_grid"
  /\ call.out.raised = "none"
  /\ \E e \in Envs :
       ReusingCall([data_len |-> call.args.data_len,
                    target_lats |-> call.out.value.lats_2d,
                    target_lons |-> call.out.value.lons_2d, env |-> e])

NextConvert ==
  \/ ToRegularGrid
  \/ ToRegularGridFast
  \/ ToRegularGridFastOnReturned

SpecConvert == InitConvert /\ [][NextConvert]_vars

(***************************************************************************)
(* The grid type of a catalog entry                                        *)
(***************************************************************************)
\* what a caller may pass to GaussianGridType: the grid_type of a GaussianGrid
\* entry of the catalog, or a name of GaussianGridTypeName as such
CatalogInputs ==
  {[module |-> m, domain |-> d.domain, model |-> d.model, value |-> d.grid_type] :
     m \in Modules, d \in GaussianDomainGrids}
  \cup
  {[module |-> m, domain |-> "none", model |-> "none", value |-> n] :
     m \in Modules, n \in GaussianGridTypeName}

\* a caller holding a name and no grid type yet
InitCatalog ==
  /\ grid_type = "none"
  /\ input \in CatalogInputs
  /\ call = NoCall
  /\ arrays = ArraysStart
  /\ converter = ConverterStart
  /\ threads = NoThreads

\* the caller evaluates GaussianGridType(value) and keeps the member
CallGaussianGridType ==
  /\ call.fn = "none"
  /\ call' = [fn |-> "GaussianGridType", out |-> GaussianGridTypeOf(input.value)]
  /\ grid_type' = IF GaussianGridTypeOf(input.value).raised = "none"
                  THEN GaussianGridTypeOf(input.value).value
                  ELSE grid_type
  /\ UNCHANGED <<input, arrays, converter, threads>>

\* the caller reads grid_type.latitude_lines
CallLatitudeLines ==
  /\ grid_type # "none"
  /\ call' = [fn |-> "latitude_lines", out |-> Return(latitude_lines(grid_type))]
  /\ UNCHANGED <<grid_type, input, arrays, converter, threads>>

\* the caller reads grid_type.count
CallCount ==
  /\ grid_type # "none"
  /\ call' = [fn |-> "count", out |-> Return(count(grid_type))]
  /\ UNCHANGED <<grid_type, input, arrays, converter, threads>>

NextCatalog ==
  \/ CallGaussianGridType
  \/ CallLatitudeLines
  \/ CallCount

SpecCatalog == InitCatalog /\ [][NextCatalog]_vars

(***************************************************************************)
(* Two threads in _get_source_coords of one shared converter               *)
(***************************************************************************)
\* a new converter that both threads hold
InitThreads ==
  /\ grid_type \in GaussianGridType
  /\ input = NoInput
  /\ call = NoCall
  /\ arrays = ArraysStart
  /\ converter = ConverterStart
  /\ threads = NoThreads

\* the step of thread t that leaves its frame as f and the converter as c
ThreadStep(t, f, c) ==
  /\ threads' = [threads EXCEPT ![t] = f]
  /\ converter' = c
  /\ UNCHANGED <<grid_type, input, call, arrays>>

\* thread t calls to_regular_grid or to_regular_grid_fast with arguments that
\* pass the checks, and reaches `self._get_source_coords()`
ThreadCall(t) ==
  /\ threads[t].pc \in {"idle", "done"}
  /\ threads[t].round < MaxRounds
  /\ \E fn \in {"to_regular_grid", "to_regular_grid_fast"} :
       ThreadStep(t, [IdleFrame EXCEPT !.pc = "test_lats", !.fn = fn,
                                       !.round = threads[t].round + 1],
                  [converter EXCEPT !.calls = converter.calls + 1])

\* a plausible slip: `and` for `or`, so that a set _lats_src ends the test
AfterLatsTest_and_slip(seen) == IF seen = NoArray THEN "test_lons" ELSE "load_lats"

\* `self._lats_src is None or ...`: None decides the test, anything else
\* goes on to the second operand
AfterLatsTest(seen) == IF seen = NoArray THEN "build" ELSE "test_lons"

\* a plausible slip: the point cloud is built whatever the test reads
AfterLonsTest_always_build_slip(seen) == "build"

\* `... or self._lons_src is None`
AfterLonsTest(seen) == IF seen = NoArray THEN "build" ELSE "load_lats"

\* thread t reads self._lats_src for the first operand of the test
TestLats(t) ==
  /\ threads[t].pc = "test_lats"
  /\ ThreadStep(t, [threads[t] EXCEPT !.seen_lats = converter._lats_src,
                                      !.pc = AfterLatsTest(converter._lats_src)],
                converter)

\* thread t reads self._lons_src for the second operand of the test
TestLons(t) ==
  /\ threads[t].pc = "test_lons"
  /\ ThreadStep(t, [threads[t] EXCEPT !.seen_lons = converter._lons_src,
                                      !.pc = AfterLonsTest(converter._lons_src)],
                converter)

\* thread t evaluates self.grid.get_lat_lon_arrays()
BuildArrays(t) ==
  /\ threads[t].pc = "build"
  /\ ThreadStep(t, [threads[t] EXCEPT !.fresh = LatLonArrays(grid_type, converter.built + 1),
                                      !.pc = "store_lats"],
                [converter EXCEPT !.built = converter.built + 1])

\* thread t stores the first target of the assignment, self._lats_src
StoreLats(t) ==
  /\ threads[t].pc = "store_lats"
  /\ ThreadStep(t, [threads[t] EXCEPT !.writes = threads[t].writes + 1,
                                      !.pc = "store_lons"],
                [converter EXCEPT !._lats_src = threads[t].fresh.lats])

\* thread t stores the second target, self._lons_src
StoreLons(t) ==
  /\ threads[t].pc = "store_lons"
  /\ ThreadStep(t, [threads[t] EXCEPT !.writes = threads[t].writes + 1,
                                      !.pc = "load_lats"],
                [converter EXCEPT !._lons_src = threads[t].fresh.lons])

\* thread t reads self._lats_src for the returned pair
LoadLats(t) ==
  /\ threads[t].pc = "load_lats"
  /\ ThreadStep(t, [threads[t] EXCEPT !.lats = converter._lats_src, !.pc = "load_lons"],
                converter)

\* thread t reads self._lons_src and returns the pair
LoadLonsAndReturn(t) ==
  /\ threads[t].pc = "load_lons"
  /\ ThreadStep(t, [threads[t] EXCEPT !.lons = converter._lons_src, !.pc = "done"],
                converter)

NextThreads ==
  \E t \in Threads :
    \/ ThreadCall(t)
    \/ TestLats(t)
    \/ TestLons(t)
    \/ BuildArrays(t)
    \/ StoreLats(t)
    \/ StoreLons(t)
    \/ LoadLats(t)
    \/ LoadLonsAndReturn(t)

SpecThreads == InitThreads /\ [][NextThreads]_vars

(***************************************************************************)
(* Runs of main                                                            *)
(***************************************************************************)
\* the dimensions a file handed to a Gaussian run may declare: the expected
\* (1, count), and shapes that are not
GaussianDims(g) ==
  {<<1, count(g)>>, <<>>, <<count(g)>>, <<2, count(g)>>, <<count(g), 1>>,
   <<1, count(g) - 1>>, <<1, count(g) + 1>>, <<1, count(g), 2>>}

\* the readers: with or without dimensions, with or without read()
Readers(dims) ==
  {[dims_known |-> k, dims |-> IF k THEN d ELSE <<>>, has_read |-> r] :
     k \in BOOLEAN, d \in dims, r \in BOOLEAN}

\* a run with --grid=gaussian
GaussianRun(g, reader, q) ==
  [kind |-> "run", grid_mode |-> "gaussian", gaussian_type |-> g,
   dims_known |-> reader.dims_known, dims |-> reader.dims, has_read |-> reader.has_read,
   regular_given |-> FALSE, lat |-> q.lat, lon |-> q.lon,
   lat_min |-> FZero, lon_min |-> FZero, dx |-> FZero, dy |-> FZero]

\* a run with --grid=regular, with or without --lat-min/--lon-min/--dx/--dy
RegularRun(given, reader, q) ==
  [kind |-> "run", grid_mode |-> "regular", gaussian_type |-> "o320",
   dims_known |-> reader.dims_known, dims |-> reader.dims, has_read |-> reader.has_read,
   regular_given |-> given, lat |-> q.lat, lon |-> q.lon,
   lat_min |-> q.lat_min, lon_min |-> q.lon_min, dx |-> q.dx, dy |-> q.dy]

\* the dimensions a file handed to a regular run may declare
RegularDims(r) == {<<r.ny, r.nx>>, <<r.nx>>, <<r.ny, r.nx, 2>>}

\* half steps from the minimum of an axis of n points: before it, on it, at
\* its last point and beyond
RunHalfSteps(n) == {-3, 0, 1, 2 * (n - 1), 2 * n + 3}

\* the Gaussian runs of grid type g
GaussianRuns(g) ==
  {GaussianRun(g, reader, FarQuery(lat, lon)) :
     reader \in Readers(GaussianDims(g)), lat \in FarLats, lon \in {-180, 9, 540}}

\* the regular runs on the grid r
RegularRuns(r) ==
  {RegularRun(given, reader, RegularQuery(r, c, w)) :
     given \in BOOLEAN, reader \in Readers(RegularDims(r)),
     c \in RunHalfSteps(r.nx), w \in RunHalfSteps(r.ny)}

\* the command line is parsed and main has not run yet
InitMain ==
  /\ grid_type = "none"
  /\ input \in UNION {GaussianRuns(g) : g \in GaussianGridType}
                 \cup UNION {RegularRuns(r) : r \in RegularGrids}
  /\ call = NoCall
  /\ arrays = ArraysStart
  /\ converter = ConverterStart
  /\ threads = NoThreads

\* main runs to its end
Main ==
  /\ call.fn = "none"
  /\ call' = [fn |-> "main", out |-> main(input).out, message |-> main(input).message,
              lookup |-> main(input).lookup, steps |-> main(input).steps]
  /\ UNCHANGED <<grid_type, input, arrays, converter, threads>>

NextMain == Main

SpecMain == InitMain /\ [][NextMain]_vars

(***************************************************************************)
(* The two copies of the indexer on the same input                         *)
(***************************************************************************)
\* a valid argument of nx_of or integral, or a (lat, lon) query
CopyInputs(g) ==
  {[kind |-> "row", y |-> y] : y \in 0 .. (2 * latitude_lines(g))}
    \cup Queries(g)

InitCopies ==
  /\ grid_type \in GaussianGridType
  /\ input \in CopyInputs(grid_type)
  /\ call = NoCall
  /\ arrays = ArraysStart
  /\ converter = ConverterStart
  /\ threads = NoThreads

\* grid_type.nx_of(y) of either copy
CopyNxOf ==
  /\ call.fn = "none"
  /\ input.kind = "row"
  /\ \E m \in Modules :
       call' = [fn |-> "nx_of", module |-> m,
                out |-> IF m = "gaussian_to_regular_grid"
                        THEN nx_of(grid_type, input.y)
                        ELSE nx_of_om(grid_type, input.y)]
  /\ UNCHANGED <<grid_type, input, arrays, converter, threads>>

\* grid_type.integral(y) of either copy
CopyIntegral ==
  /\ call.fn = "none"
  /\ input.kind = "row"
  /\ \E m \in Modules :
       call' = [fn |-> "integral", module |-> m,
                out |-> IF m = "gaussian_to_regular_grid"
                        THEN integral(grid_type, input.y)
                        ELSE integral_om(grid_type, input.y)]
  /\ UNCHANGED <<grid_type, input, arrays, converter, threads>>

\* grid.find_point(lat, lon) of the copy of gaussian_to_regular_grid.py
CopyFindPoint ==
  /\ call.fn = "none"
  /\ input.kind # "row"
  /\ call' = [fn |-> "find_point", module |-> "gaussian_to_regular_grid",
              out |-> find_point(grid_type, input.lat, input.lon)]
  /\ UNCHANGED <<grid_type, input, arrays, converter, threads>>

\* grid.find_point(lat, lon) of the copy of om_read_example.py
CopyFindPointOm ==
  /\ call.fn = "none"
  /\ input.kind # "row"
  /\ call' = [fn |-> "find_point", module |-> "om_read_example",
              out |-> find_point_om(grid_type, input.lat, input.lon)]
  /\ UNCHANGED <<grid_type, input, arrays, converter, threads>>

NextCopies ==
  \/ CopyNxOf
  \/ CopyIntegral
  \/ CopyFindPoint
  \/ CopyFindPointOm

SpecCopies == InitCopies /\ [][NextCopies]_vars

(***************************************************************************)
(* Row arithmetic: prefix sums and range checks                            *)
(***************************************************************************)
\* C4: integral(0) = 0, integral(2L) = count, and for every row y in
\* [0, 2L) integral(y+1) - integral(y) = nx_of(y), the two steps across the
\* equator (y = L-1 and y = L) included
C4_PrefixSumConsistent ==
  (call.fn = "integral" /\ input.module = "gaussian_to_regular_grid") =>
    LET l == latitude_lines(grid_type)
        y == input.y
    IN /\ (y = 0 => call.out = Return(0))
       /\ (y = 2 * l => call.out = Return(count(grid_type)))
       /\ (0 <= y /\ y < 2 * l =>
             /\ call.out.raised = "none"
             /\ integral(grid_type, y + 1).raised = "none"
             /\ nx_of(grid_type, y).raised = "none"
             /\ integral(grid_type, y + 1).value - call.out.value
                  = nx_of(grid_type, y).value)

\* integral was evaluated at the equator row y = L, where the closed form
\* hands over to the mirrored form
C4_Witness ==
  /\ call.fn = "integral"
  /\ input.module = "gaussian_to_regular_grid"
  /\ input.y = latitude_lines(grid_type)
  /\ call.out = Return(count(grid_type) \div 2)

\* C5: the row lengths nx_of(y), summed over all rows y in [0, 2L) as
\* get_lat_lon_arrays walks them, add up to count = 4*L*(L+9)
C5_RowLengthsSumToCount ==
  arrays.pc = "returned" => arrays.written = count(grid_type)

\* the loop of get_lat_lon_arrays has walked all 2L rows
C5_Witness ==
  /\ arrays.pc = "returned"
  /\ arrays.y = 2 * latitude_lines(grid_type)
  /\ arrays.written > 0

\* C9: in both copies of GaussianGridType, nx_of(y) raises exactly when
\* y < 0 or y >= 2L
C9_NxOfRaisesOutOfRange ==
  call.fn = "nx_of" =>
    (call.out.raised = "ValueError"
       <=> (input.y < 0 \/ input.y >= 2 * latitude_lines(grid_type)))

\* C10: in both copies of GaussianGridType, integral(y) raises exactly when
\* y < 0 or y > 2L
C10_IntegralRaisesOutOfRange ==
  call.fn = "integral" =>
    (call.out.raised = "ValueError"
       <=> (input.y < 0 \/ input.y > 2 * latitude_lines(grid_type)))

(***************************************************************************)
(* Nearest-point lookup                                                    *)
(***************************************************************************)
\* C1: for a query at exactly the latitude and longitude that
\* get_lat_lon_arrays stores for column x of row y, find_point returns the
\* linear index integral(y) + x of that point
C1_RoundTrip ==
  (call.fn = "find_point" /\ input.kind = "grid" /\ input.j = 0 /\ input.k = 0) =>
    call.out = Return(integral(grid_type, input.row).value + input.col)

\* find_point was asked for the antimeridian point of the southernmost row
\* and returned its index
C1_Witness ==
  /\ call.fn = "find_point"
  /\ input.kind = "grid" /\ input.j = 0 /\ input.k = 0
  /\ input.row = 2 * latitude_lines(grid_type) - 1
  /\ input.col = 10
  /\ call.out = Return(count(grid_type) - 10)

\* lat lies between the latitude of row 2L-1 and the latitude of row 0
InCoverage(g, lat) ==
  /\ FCmp(ArrayLat(g, 2 * latitude_lines(g) - 1), lat) <= 0
  /\ FCmp(lat, ArrayLat(g, 0)) <= 0

\* |a - b| taken modulo 360
LonDifference(a, b) ==
  LET d == FSub(a, b)
      ad == IF d.sg < 0 THEN FNeg(d) ELSE d
      rest == FSub(FromInt(360), ad)
  IN IF FLess(rest, ad) THEN rest ELSE ad

\* squared degree-space distance from the query to column x of row y
DistanceTo(g, y, x, lat, lon_wrapped) ==
  SumOfSquares(FSub(ArrayLat(g, y), lat),
               LonDifference(FMul(FromInt(x), FDiv(FromInt(360), FromInt(nx_of(g, y).value))),
                             lon_wrapped))

\* the two columns of row y on either side of the query's longitude
BracketingColumns(g, y, lon_wrapped) ==
  LET nx == nx_of(g, y).value
      west == FFloor(FDiv(lon_wrapped, FDiv(FromInt(360), FromInt(nx))))
  IN {(west + nx) % nx, (west + 1 + nx) % nx}

\* C2: for a latitude within the grid's coverage, no grid point is closer to
\* the query than the point find_point_xy returns.  Of ALL the points of
\* the grid, those of the rows within NearRows of the two examined rows, at
\* the columns on either side of the query, are compared
C2_NearestAmongAllPoints ==
  (/\ call.fn = "find_point_xy"
   /\ call.out.raised = "none"
   /\ InCoverage(grid_type, input.lat)) =>
    \A y \in (call.frame.y - NearRows) .. (call.frame.y_upper + NearRows) :
      y \in Rows(grid_type) =>
        \A x \in BracketingColumns(grid_type, y, call.frame.lon_wrapped) :
          ~ FLess(DistanceTo(grid_type, y, x, input.lat, call.frame.lon_wrapped),
                  DistanceTo(grid_type, call.out.value[2], call.out.value[1],
                             input.lat, call.frame.lon_wrapped))

\* C3 as stated: when dist0 = dist1 the primary row y is returned
C3_TieGoesToPrimary ==
  (/\ call.fn = "find_point_xy"
   /\ call.out.raised = "none"
   /\ call.frame.dist0 = call.frame.dist1) =>
    call.out.value[2] = call.frame.y

\* C3 (amended): when dist0 = dist1 the candidate of the successor row y+1
\* is returned
C3_TieGoesToSuccessor ==
  (/\ call.fn = "find_point_xy"
   /\ call.out.raised = "none"
   /\ call.frame.dist0 = call.frame.dist1) =>
    call.out = Return(<<NormalizeColumn(call.frame.x1, call.frame.nx_upper),
                        call.frame.y_upper>>)

\* a query on the equator, midway between rows L-1 and L: both candidates
\* are at the same squared distance and row L is returned
C3_Witness ==
  /\ call.fn = "find_point_xy"
  /\ input.lat = FZero
  /\ call.frame.dist0 = call.frame.dist1
  /\ call.frame.y = latitude_lines(grid_type) - 1
  /\ call.out.value[2] = latitude_lines(grid_type)

\* C6: whenever find_point_xy returns, its row y is in [0, 2L) and its
\* column x in [0, nx_of(y)); whenever find_point returns, its index is in
\* [0, count)
C6_ResultInRange ==
  /\ (call.fn = "find_point_xy" /\ call.out.raised = "none") =>
       /\ call.out.value[2] \in Rows(grid_type)
       /\ call.out.value[1] \in 0 .. (nx_of(grid_type, call.out.value[2]).value - 1)
  /\ (call.fn = "find_point" /\ call.out.raised = "none") =>
       call.out.value \in 0 .. (count(grid_type) - 1)

\* a query beyond the south pole and one and a half turns west: the row is
\* clamped and the column reduced into the last rows of the grid
C6_Witness ==
  /\ call.fn = "find_point_xy"
  /\ input = FarQuery(-100, -540)
  /\ call.out.raised = "none"
  /\ call.out.value[2] >= 2 * latitude_lines(grid_type) - 2
  /\ call.out.value[1] = nx_of(grid_type, call.out.value[2]).value \div 2

\* the float lon + turn is the real number lon + turn: nothing is rounded
ShiftIsExact(lon, turn) ==
  /\ FSub(FAdd(lon, turn), lon) = turn
  /\ FSub(FAdd(lon, turn), turn) = lon

\* C7: find_point_xy(lat, lon + 360) and find_point_xy(lat, lon - 360)
\* return what find_point_xy(lat, lon) returns, for shifts of exactly 360
C7_FullTurnInvariant ==
  call.fn = "find_point_xy" =>
    \A turn \in {-360, 360} :
      ShiftIsExact(input.lon, FromInt(turn)) =>
        find_point_xy(grid_type, input.lat, FAdd(input.lon, FromInt(turn)))
          = call.out

\* C8: find_point_xy(0, 180) and find_point_xy(0, -180) return the same row
\* and columns at most one apart modulo the row's point count, and the
\* linear indices of find_point differ accordingly
C8_AntimeridianConsistent ==
  /\ (call.fn = "find_point_xy" /\ input = FarQuery(0, 180)) =>
       LET east == call.out.value
           west == find_point_xy(grid_type, FromInt(0), FromInt(-180)).value
           nx == nx_of(grid_type, east[2]).value
       IN /\ east[2] = west[2]
          /\ (east[1] - west[1] + nx) % nx \in {0, 1, nx - 1}
  /\ (call.fn = "find_point" /\ input = FarQuery(0, 180)) =>
       LET east == call.out.value
           west == find_point(grid_type, FromInt(0), FromInt(-180)).value
           nx == nx_of(grid_type, latitude_lines(grid_type)).value
       IN \/ east = west
          \/ east - west \in {1, -1, nx - 1, 1 - nx}

\* find_point_xy(0, 180) wrapped the longitude to -180 and returned the
\* antimeridian column of the row just south of the equator
C8_Witness ==
  /\ call.fn = "find_point_xy"
  /\ input = FarQuery(0, 180)
  /\ call.frame.lon_wrapped = FromInt(-180)
  /\ call.out = Return(<<nx_of(grid_type, latitude_lines(grid_type)).value \div 2,
                         latitude_lines(grid_type)>>)

(***************************************************************************)
(* Row layout                                                              *)
(***************************************************************************)
\* C19: for every row y in [0, 2L), nx_of(y) = 20 + 4*min(y, 2L-1-y)
\* = nx_of(2L-1-y), and integral(L) = count/2; for o320, nx_of(0) = 20,
\* nx_of(319) = 1296, count = 421120 and integral(320) = 210560
C19_HemisphereSymmetry ==
  LET l == latitude_lines(grid_type)
      y == input.y
  IN input.module = "gaussian_to_regular_grid" =>
       /\ (call.fn = "nx_of" /\ y \in Rows(grid_type)) =>
            /\ call.out = Return(20 + 4 * Min(y, 2 * l - 1 - y))
            /\ call.out = nx_of(grid_type, 2 * l - 1 - y)
       /\ (call.fn = "integral" /\ y = l) =>
            /\ call.out.raised = "none"
            /\ 2 * call.out.value = count(grid_type)
       /\ grid_type = "o320" =>
            /\ count(grid_type) = 421120
            /\ (call.fn = "nx_of" /\ y = 0) => call.out = Return(20)
            /\ (call.fn = "nx_of" /\ y = 319) => call.out = Return(1296)
            /\ (call.fn = "integral" /\ y = 320) => call.out = Return(210560)

\* nx_of was evaluated at the last row north of the equator of o320
C19_Witness ==
  /\ grid_type = "o320"
  /\ input.module = "gaussian_to_regular_grid"
  /\ input.y = 319
  /\ call.fn = "nx_of"
  /\ call.out = Return(1296)

\* C17: get_lat_lon_arrays writes the slice [integral(y), integral(y) +
\* nx_of(y)) for each row y in turn; each slice starts where the one before
\* ended, the first at 0 and the last ending at count, so every position
\* of [0, count) is written exactly once; the latitude stored for row y is
\* (L - y - 1)*dy + dy/2, column 0 holds longitude 0, and every stored
\* longitude is in [-180, 180)
C17_CoordinateArrayLayout ==
  /\ arrays.y > 0 =>
       /\ arrays.start = arrays.filled
       /\ arrays.start = integral(grid_type, arrays.y - 1).value
       /\ arrays.end - arrays.start = nx_of(grid_type, arrays.y - 1).value
       /\ arrays.written = arrays.end
       /\ arrays.lat = FAdd(FMul(FromInt(latitude_lines(grid_type) - arrays.y),
                                 _dy(grid_type)),
                            FDiv(_dy(grid_type), FromInt(2)))
       /\ arrays.lons[0] = FZero
       /\ \A x \in DOMAIN arrays.lons :
            /\ FCmp(FromInt(-180), arrays.lons[x]) <= 0
            /\ FLess(arrays.lons[x], FromInt(180))
  /\ arrays.pc = "returned" =>
       /\ arrays.end = count(grid_type)
       /\ arrays.written = count(grid_type)

\* the equator row L has been written: its antimeridian column holds -180
\* and the column before it a longitude just below 180
C17_Witness ==
  /\ arrays.y = latitude_lines(grid_type) + 1
  /\ arrays.start = count(grid_type) \div 2
  /\ arrays.lons[(arrays.end - arrays.start) \div 2] = FromInt(-180)
  /\ FLess(FromInt(179), arrays.lons[(arrays.end - arrays.start) \div 2 - 1])

(***************************************************************************)
(* Regular-grid lookup                                                     *)
(***************************************************************************)
\* C11: when nx*dx >= 359 a rounded column of -1 is returned as 0 and a
\* rounded column of nx as nx-1 (the row permitting); when nx*dx < 359 both
\* raise; on the global quarter-degree grid (lat=90, lon=180) returns
\* (x=1439, y=720)
C11_GlobalWraparound ==
  call.fn = "find_point_regular" =>
    /\ (input.span_x_quarters >= 359 * 4 /\ call.frame.x_raw = -1) =>
         /\ call.frame.x = 0
         /\ call.frame.y \in 0 .. (input.ny - 1) =>
              call.out = Return(<<0, call.frame.y>>)
    /\ (input.span_x_quarters >= 359 * 4 /\ call.frame.x_raw = input.nx) =>
         /\ call.frame.x = input.nx - 1
         /\ call.frame.y \in 0 .. (input.ny - 1) =>
              call.out = Return(<<input.nx - 1, call.frame.y>>)
    /\ (input.span_x_quarters < 359 * 4 /\ call.frame.x_raw \in {-1, input.nx}) =>
         call.out = Raise("ValueError")
    /\ (/\ input.grid = "global"
        /\ input.lat = FromInt(90)
        /\ input.lon = FromInt(180)) =>
         call.out = Return(<<1439, 720>>)

\* the grid spanning exactly 359 degrees was queried one column east of
\* its last column, and the column was snapped back
C11_Witness ==
  /\ call.fn = "find_point_regular"
  /\ input.grid = "span_359"
  /\ call.frame.x_raw = 359
  /\ call.frame.y_raw = 0
  /\ call.out = Return(<<358, 0>>)

\* C12: find_point_regular either raises or returns (x, y) with
\* 0 <= x < nx and 0 <= y < ny, and the index y*nx + x its caller computes
\* is in [0, nx*ny)
C12_RegularResultInGrid ==
  /\ call.fn = "find_point_regular" =>
       \/ call.out = Raise("ValueError")
       \/ /\ call.out.raised = "none"
          /\ call.out.value[1] \in 0 .. (input.nx - 1)
          /\ call.out.value[2] \in 0 .. (input.ny - 1)
  /\ call.fn = "main" =>
       \/ call.out = Raise("ValueError")
       \/ /\ call.out.raised = "none"
          /\ call.out.value \in 0 .. (input.nx * input.ny - 1)

\* main looked up the north-east corner of the global grid and computed
\* the last index of the data array
C12_Witness ==
  /\ call.fn = "main"
  /\ input.grid = "global"
  /\ input.col_halves = 2 * input.nx
  /\ input.row_halves = 2 * (input.ny - 1)
  /\ call.out = Return(input.nx * input.ny - 1)

(***************************************************************************)
(* Converter contracts                                                     *)
(***************************************************************************)
\* the cached point cloud of the converter c
CacheOf(c) == <<c._lats_src, c._lons_src, c.built>>

\* C13: to_regular_grid called with a positive resolution and data whose
\* length differs from count raises the data-length ValueError without having
\* reached the import of SciPy, _get_source_coords or the interpolation, and
\* the point cloud is as it was
C13_LengthCheckedBeforeInterpolation ==
  (/\ call.fn = "to_regular_grid"
   /\ Positive(call.args.dlat) /\ Positive(call.args.dlon)
   /\ call.args.data_len # count(grid_type)) =>
    /\ call.out.raised = "ValueError"
    /\ call.message = "data_length"
    /\ call.steps = <<>>
    /\ CacheOf(converter) = CacheOf(call.before)

\* data one short of count on a new converter whose SciPy would have worked
C13_Witness ==
  /\ call.fn = "to_regular_grid"
  /\ Positive(call.args.dlat) /\ Positive(call.args.dlon)
  /\ call.args.data_len = count(grid_type) - 1
  /\ call.args.env = "scipy_returns"
  /\ call.message = "data_length"
  /\ converter._lats_src = NoArray

\* C14: to_regular_grid raises the target-resolution ValueError, before any
\* later step, whenever dlat <= 0 or dlon <= 0, whatever the length of the
\* data; with dlat > 0 and dlon > 0 it never raises that error
C14_ResolutionMustBePositive ==
  (call.fn = "to_regular_grid") =>
    IF Positive(call.args.dlat) /\ Positive(call.args.dlon)
    THEN call.message # "target_resolution"
    ELSE /\ call.out.raised = "ValueError"
         /\ call.message = "target_resolution"
         /\ call.steps = <<>>

\* dlat = 0.0 alone, with data of the wrong length
C14_Witness ==
  /\ call.fn = "to_regular_grid"
  /\ call.args.dlat = FZero
  /\ Positive(call.args.dlon)
  /\ call.args.data_len # count(grid_type)
  /\ call.message = "target_resolution"

\* the call was bound to fail on a check of the converter or on the import
FailsBeforeInterpolation ==
  \/ call.fn = "to_regular_grid"
       /\ ~(Positive(call.args.dlat) /\ Positive(call.args.dlon))
  \/ call.fn = "to_regular_grid_fast" /\ call.args.target_lats.shape # call.args.target_lons.shape
  \/ call.args.data_len # count(grid_type)
  \/ call.args.env = "no_scipy"

\* C15: a call of to_regular_grid or to_regular_grid_fast that fails on the
\* resolution, on the target shapes, on the data length or on the missing
\* SciPy raises without a value and leaves _lats_src and _lons_src as they
\* were before the call
C15_NoPartialSuccess ==
  (call.fn \in {"to_regular_grid", "to_regular_grid_fast"}
     /\ FailsBeforeInterpolation) =>
    /\ call.out.raised \in {"ValueError", "SystemExit"}
    /\ CacheOf(converter) = CacheOf(call.before)

\* SciPy is missing on the first call of a converter: the cache stays empty
C15_Witness ==
  /\ call.fn = "to_regular_grid_fast"
  /\ call.args.target_lats.shape = call.args.target_lons.shape
  /\ call.args.data_len = count(grid_type)
  /\ call.out.raised = "SystemExit"
  /\ call.before._lats_src = NoArray
  /\ converter._lats_src = NoArray

\* C16: over any sequence of calls on one converter get_lat_lon_arrays is
\* invoked at most once, and a populated cache is never emptied or replaced
C16_WriteOnceCache ==
  /\ [](converter.built <= 1)
  /\ [][/\ converter._lats_src # NoArray => converter'._lats_src = converter._lats_src
        /\ converter._lons_src # NoArray => converter'._lons_src = converter._lons_src]_vars

\* a second call returns from the point cloud the first call built
C16_Witness ==
  /\ converter.calls = 2
  /\ converter.built = 1
  /\ call.before._lats_src = LatLonArrays(grid_type, 1).lats
  /\ call.out.raised = "none"
  /\ converter._lats_src = call.before._lats_src

(***************************************************************************)
(* Target axes                                                             *)
(***************************************************************************)
\* max - min for min <= max, unrounded, as m * 2^e
ExactSpanOf(al, smin, smax) ==
  [m |-> IF smin < 0 /\ smax > 0 THEN BigAdd(al.ma, al.mb)
         ELSE IF smax > 0 THEN BigSub(al.ma, al.mb)
         ELSE BigSub(al.mb, al.ma),
   e |-> al.e]

ExactSpan(min, max) ==
  IF min.sg = 0 THEN [m |-> max.m, e |-> max.e]
  ELSE IF max.sg = 0 THEN [m |-> min.m, e |-> min.e]
  ELSE ExactSpanOf(FAlign(max, min), min.sg, max.sg)

\* whether span is an integer multiple k of d, and k
ExactStepsOf(dm) == [exact |-> dm.r = <<>>, k |-> BigToNat(dm.q)]

ExactStepsAligned(al) == ExactStepsOf(BigDivMod(al.ma, al.mb))

ExactSteps(span, d) ==
  IF span.m = <<>> THEN [exact |-> TRUE, k |-> 0]
  ELSE ExactStepsAligned(FAlign(span, d))

AxisHas(axis, min, max, steps) ==
  steps.exact =>
    /\ axis.len = steps.k + 1
    /\ FCmp(axis.first, min) = 0
    /\ FCmp(axis.last, max) = 0

\* the axis from min to max in steps of d ends at max when max - min is a
\* multiple of d
AxisReachesMaximum(axis, min, max, d) ==
  (FCmp(min, max) <= 0 /\ Positive(d)) =>
    AxisHas(axis, min, max, ExactSteps(ExactSpan(min, max), d))

\* C20: when max - min is an exact multiple k of the step d > 0, the axis
\* to_regular_grid generates has k + 1 samples, the first being min and the
\* last being max
C20_AxisReachesMaximum ==
  (call.fn = "to_regular_grid" /\ call.out.raised = "none") =>
    /\ AxisReachesMaximum(call.out.value.lat_1d,
                          LatMinOf(grid_type, call.args.lat_range),
                          LatMaxOf(grid_type, call.args.lat_range), call.args.dlat)
    /\ AxisReachesMaximum(call.out.value.lon_1d, LonMinOf(call.args.lon_range),
                          LonMaxOf(call.args.lon_range), call.args.dlon)

(***************************************************************************)
(* Catalog and enumeration                                                 *)
(***************************************************************************)
\* C18: GaussianGridType(value) succeeds for the grid_type of every
\* GaussianGrid entry of DOMAIN_GRIDS and for every name of
\* GaussianGridTypeName, and the member it yields has latitude_lines and count
C18_CatalogKindsInEnumeration ==
  /\ call.fn = "GaussianGridType" => call.out.raised = "none"
  /\ call.fn # "none" => grid_type \in GaussianGridType

(***************************************************************************)
(* The two examined rows                                                   *)
(***************************************************************************)
\* the squared distance find_point_xy computes for the point of row y at
\* longitude k * 360 / nx_of(y)
RowPointDistance(g, y, k, lat, lon_wrapped) ==
  Candidate(latitude_lines(g), _dy(g), y, nx_of(g, y).value,
            FDiv(FromInt(360), FromInt(nx_of(g, y).value)), k, lat, lon_wrapped).dist

\* the squared distance of the point find_point_xy returned
ReturnedDistance ==
  IF call.out.value[2] = call.frame.y THEN call.frame.dist0 ELSE call.frame.dist1

\* C22: no point of the primary row y or of its successor y+1, at any
\* longitude k * 360 / nx, is closer to (lat, lon_wrapped) than the point
\* find_point_xy returns; of each row the points within NearCols columns of
\* the rounded column are compared
C22_NearestOfTwoRows ==
  (call.fn = "find_point_xy" /\ call.out.raised = "none") =>
    /\ \A k \in (call.frame.x0 - NearCols) .. (call.frame.x0 + NearCols) :
         ~ FLess(RowPointDistance(grid_type, call.frame.y, k, input.lat,
                                  call.frame.lon_wrapped),
                 ReturnedDistance)
    /\ \A k \in (call.frame.x1 - NearCols) .. (call.frame.x1 + NearCols) :
         ~ FLess(RowPointDistance(grid_type, call.frame.y_upper, k, input.lat,
                                  call.frame.lon_wrapped),
                 ReturnedDistance)

\* a query a quarter row north and a quarter column east of column 0 of row
\* L: the successor row's candidate is strictly closer and is returned
C22_Witness ==
  /\ call.fn = "find_point_xy"
  /\ input.kind = "grid"
  /\ input.row = latitude_lines(grid_type)
  /\ input.col = 0
  /\ input.j = 1
  /\ input.k = 1
  /\ FLess(call.frame.dist1, call.frame.dist0)
  /\ call.out = Return(<<0, latitude_lines(grid_type)>>)

(***************************************************************************)
(* The row clamp                                                           *)
(***************************************************************************)
\* C23: for every latitude, beyond the outermost rows and beyond the poles
\* included, find_point_xy examines a row y in [0, 2L-2] and its successor
\* y+1 in [1, 2L-1] and returns a point, and so does find_point; a latitude
\* north of row 0 resolves to row 0 or 1 and one south of row 2L-1 to row
\* 2L-2 or 2L-1
C23_RowClampNeverFails ==
  /\ call.fn = "find_point" => call.out.raised = "none"
  /\ call.fn = "find_point_xy" =>
       /\ call.out.raised = "none"
       /\ call.frame.y \in 0 .. (2 * latitude_lines(grid_type) - 2)
       /\ call.frame.y_upper = call.frame.y + 1
       /\ call.out.value[2] \in {call.frame.y, call.frame.y_upper}
       /\ FLess(ArrayLat(grid_type, 0), input.lat) => call.out.value[2] \in {0, 1}
       /\ FLess(input.lat, ArrayLat(grid_type, 2 * latitude_lines(grid_type) - 1)) =>
            call.out.value[2] \in {2 * latitude_lines(grid_type) - 2,
                                   2 * latitude_lines(grid_type) - 1}

\* latitude -100: the row is clamped to 2L-2 and the point of row 2L-1 is
\* returned
C23_Witness ==
  /\ call.fn = "find_point_xy"
  /\ input = FarQuery(-100, 0)
  /\ call.frame.y = 2 * latitude_lines(grid_type) - 2
  /\ call.out.raised = "none"
  /\ call.out.value[2] = 2 * latitude_lines(grid_type) - 1

(***************************************************************************)
(* The snap set of a global regular grid                                   *)
(***************************************************************************)
\* the grid of the query spans at least 359 degrees of longitude and 179
\* degrees of latitude
GlobalInBothAxes == input.span_x_quarters >= 4 * 359 /\ input.span_y_quarters >= 4 * 179

\* what a raw column (row) within the accepted set becomes
SnappedColumn(x_raw, nx) == IF x_raw = -1 THEN 0 ELSE IF x_raw >= nx THEN nx - 1 ELSE x_raw
SnappedRow(y_raw, ny) == IF y_raw = -1 THEN 0 ELSE IF y_raw = ny THEN ny - 1 ELSE y_raw

\* C24: on a grid global in both axes find_point_regular accepts exactly the
\* raw columns -1..nx+1 and the raw rows -1..ny; it returns -1 as 0, the
\* columns nx and nx+1 as nx-1, the row ny as ny-1 and every other accepted
\* value unchanged, and raises ValueError for every other raw column or row
C24_ExactSnapSet ==
  (call.fn = "find_point_regular" /\ GlobalInBothAxes) =>
    IF /\ call.frame.x_raw \in -1 .. (input.nx + 1)
       /\ call.frame.y_raw \in -1 .. input.ny
    THEN /\ call.out.raised = "none"
         /\ call.out.value = <<SnappedColumn(call.frame.x_raw, input.nx),
                               SnappedRow(call.frame.y_raw, input.ny)>>
    ELSE call.out.raised = "ValueError"

\* the raw column nx+1 and the raw row ny of the global quarter-degree grid
\* are returned as (nx-1, ny-1)
C24_Witness ==
  /\ call.fn = "find_point_regular"
  /\ input.grid = "global"
  /\ call.frame.x_raw = input.nx + 1
  /\ call.frame.y_raw = input.ny
  /\ call.out = Return(<<input.nx - 1, input.ny - 1>>)

(***************************************************************************)
(* The two copies of the indexer                                           *)
(***************************************************************************)
\* C28: the copy of gaussian_to_regular_grid.py and the copy of
\* om_read_example.py agree: nx_of for every y in [0, 2L), integral for
\* every y in [0, 2L], y = L included, and find_point for every query
C28_CopiesAgree ==
  /\ (call.fn = "nx_of" /\ input.y < 2 * latitude_lines(grid_type)) =>
       /\ call.out = nx_of(grid_type, input.y)
       /\ call.out = nx_of_om(grid_type, input.y)
  /\ call.fn = "integral" =>
       /\ call.out = integral(grid_type, input.y)
       /\ call.out = integral_om(grid_type, input.y)
  /\ call.fn = "find_point" =>
       /\ call.out = find_point(grid_type, input.lat, input.lon)
       /\ call.out = find_point_om(grid_type, input.lat, input.lon)

\* integral(L) of om_read_example.py, computed by the mirrored form, is the
\* 2L^2 + 18L of the closed form
C28_Witness ==
  /\ call.fn = "integral"
  /\ call.module = "om_read_example"
  /\ input.y = latitude_lines(grid_type)
  /\ call.out = Return(2 * input.y * input.y + 18 * input.y)
  /\ call.out = integral(grid_type, input.y)

\* every sample of an axis of increasing samples lies in [min, max] exactly
\* when its first and its last sample do
AxisWithin(axis, min, max) ==
  axis.len > 0 => (FCmp(min, axis.first) <= 0 /\ FCmp(axis.last, max) <= 0)

\* C29: for min <= max and a step d > 0, every sample of the latitude axis
\* that to_regular_grid generates lies in [lat_min, lat_max] and every sample
\* of the longitude axis lies in [lon_min, lon_max]
C29_AxesWithinRange ==
  (call.fn = "to_regular_grid" /\ call.out.raised = "none") =>
    /\ AxisWithin(call.out.value.lat_1d, LatMinOf(grid_type, call.args.lat_range),
                  LatMaxOf(grid_type, call.args.lat_range))
    /\ AxisWithin(call.out.value.lon_1d, LonMinOf(call.args.lon_range),
                  LonMaxOf(call.args.lon_range))

(***************************************************************************)
(* The fast path against the general path                                  *)
(***************************************************************************)
\* the fast call was given the data and the arrays of a general call that
\* returned
ReusesGeneralCall == call.fn = "to_regular_grid_fast" /\ "general" \in DOMAIN call

\* C26: to_regular_grid_fast(data, lats_2d, lons_2d), given the data and the
\* meshgrid arrays of a to_regular_grid call with method "nearest", returns an
\* array of the shape of lats_2d whose cells are the cells of the data_2d of
\* that call; and to_regular_grid_fast raises ValueError for target arrays of
\* different shapes before it checks the data length, imports SciPy, touches
\* the cache or interpolates
C26_FastAgreesWithGeneral ==
  /\ (/\ ReusesGeneralCall
      /\ call.general.args.method = "nearest"
      /\ call.out.raised = "none") =>
       /\ call.out.value.shape = call.args.target_lats.shape
       /\ call.out.value = call.general.out.value.data_2d
  /\ (/\ call.fn = "to_regular_grid_fast"
      /\ call.args.target_lats.shape # call.args.target_lons.shape) =>
       /\ call.out.raised = "ValueError"
       /\ call.message = "target_shape"
       /\ call.steps = <<>>
       /\ converter._lats_src = call.before._lats_src
       /\ converter._lons_src = call.before._lons_src

\* a nearest-neighbour to_regular_grid call returned, and the fast call on
\* its arrays returned the same values
C26_Witness ==
  /\ ReusesGeneralCall
  /\ call.general.args.method = "nearest"
  /\ call.out.raised = "none"
  /\ call.out.value.interpolator = "NearestNDInterpolator"
  /\ call.out.value.shape = <<call.general.out.value.lat_1d.len,
                              call.general.out.value.lon_1d.len>>
  /\ call.out.value = call.general.out.value.data_2d

(***************************************************************************)
(* The shared cache under two threads                                      *)
(***************************************************************************)
\* both operands of the test of thread t's call read an array
SawPopulated(t) == threads[t].seen_lats.of = "lats" /\ threads[t].seen_lons.of = "lons"

\* C25: a thread whose call observed the cache as populated builds nothing
\* and stores nothing into the cache in that call; two threads that both
\* observe the empty cache both build and store (C25_Witness)
C25_NoWriteOncePopulated ==
  \A t \in Threads :
    SawPopulated(t) =>
      /\ threads[t].writes = 0
      /\ threads[t].fresh.lats = NoArray
      /\ threads[t].pc \in {"load_lats", "load_lons", "done"}

\* both threads read None from the empty cache in their first call, both
\* built the point cloud and each stored both arrays: four stores, two builds
C25_Witness ==
  /\ \A t \in Threads :
       /\ threads[t].round = 1
       /\ threads[t].pc = "done"
       /\ threads[t].seen_lats = NoArray
       /\ threads[t].writes = 2
  /\ threads["t1"].fresh.lats.build # threads["t2"].fresh.lats.build
  /\ converter.built = 2

\* the array a.of names, complete, of the converter's grid
PointCloud(a, of) == a.of = of /\ a.grid = grid_type /\ a.build \in 1 .. converter.built

\* a call that returned handed out both arrays
ReturnedPairComplete ==
  \A t \in Threads :
    threads[t].pc = "done" =>
      PointCloud(threads[t].lats, "lats") /\ PointCloud(threads[t].lons, "lons")

\* an attribute of the cache that holds an array is never None afterwards
CacheStaysPopulated ==
  /\ converter._lats_src # NoArray => converter'._lats_src # NoArray
  /\ converter._lons_src # NoArray => converter'._lons_src # NoArray

\* C30: under every interleaving of the two threads, each call of
\* _get_source_coords returns a pair of which neither component is None and
\* both are the complete point cloud of the converter's grid, and the cache
\* never goes back from populated to empty
C30_NoHalfPopulatedRead == []ReturnedPairComplete /\ [][CacheStaysPopulated]_vars

\* thread t1 returned while thread t2 was between its two stores: the pair
\* of t1 holds the latitudes t2 built and the longitudes t1 built
C30_Witness ==
  /\ threads["t1"].pc = "done"
  /\ threads["t2"].pc = "store_lons"
  /\ threads["t1"].lats = threads["t2"].fresh.lats
  /\ threads["t1"].lons = threads["t1"].fresh.lons
  /\ threads["t1"].lats.build # threads["t1"].lons.build
  /\ converter._lats_src.build # converter._lons_src.build

(***************************************************************************)
(* The order of the steps of main                                          *)
(***************************************************************************)
Reached(step) == \E i \in 1 .. Len(call.steps) : call.steps[i] = step

LookedUp == Reached("find_point") \/ Reached("find_point_regular")

\* read() comes third, after get_dimensions and a lookup that returned, with
\* the arguments of the grid mode valid
MainReadsLast ==
  Reached("read") =>
    /\ input.dims_known
    /\ Len(input.dims) >= 2
    /\ input.grid_mode = "regular" => input.regular_given
    /\ input.grid_mode = "gaussian" =>
         (input.dims[1] = 1 /\ input.dims[2] = count(input.gaussian_type))
    /\ call.lookup.raised = "none"
    /\ call.steps[1] = "get_dimensions"
    /\ call.steps[2] \in {"find_point", "find_point_regular"}
    /\ call.steps[4] = "read"

\* a Gaussian run on a file whose shape is not (1, count) raises before any
\* lookup or read
MainRejectsOtherShapes ==
  (/\ input.grid_mode = "gaussian"
   /\ ~(input.dims_known /\ input.dims = <<1, count(input.gaussian_type)>>)) =>
    /\ call.out.raised # "none"
    /\ ~LookedUp
    /\ ~Reached("read")

\* the index that subscripts the data lies in [0, dims[0] * dims[1])
MainIndexInRange ==
  Reached("read") =>
    /\ call.lookup.value >= 0
    /\ call.lookup.value < input.dims[1] * input.dims[2]

\* C27: in main, read() is invoked only after the dimensions were obtained,
\* the grid arguments were validated and the point lookup succeeded; in
\* Gaussian mode a file whose declared shape is not (1, count) is rejected
\* before any lookup or read; and when read() is reached the index lies in
\* [0, dims[0] * dims[1])
C27_MainOrdering ==
  call.fn = "main" => (MainReadsLast /\ MainRejectsOtherShapes /\ MainIndexInRange)

====
